---- MODULE Spec2Model ----
(***************************************************************************)
(* Model of xdot.py 0.3 (src/xdot.py): the scene model and its spatial     *)
(* queries, the layout loader, the animation engine and the DotWidget      *)
(* interaction state machine.                                              *)
(*                                                                         *)
(* Numbers.  Python floats are modelled in fixed point: a real r is the    *)
(* integer r*FP.  Pointer coordinates, node geometry and the clock are     *)
(* whole numbers, for which the arithmetic below is exact.  time.time()    *)
(* is the variable clock, in fixed-point seconds; it advances by TimeStep.  *)
(*                                                                         *)
(* Not modelled: cairo/pango drawing, queue_draw and the mouse cursor      *)
(* (they belong to the drawing surface), and the GUI shell (DotWindow).    *)
(***************************************************************************)
EXTENDS Integers, Sequences, FiniteSets, TLC

\* ------------------------------------------------------------------------
\* Bounds of the model
\* ------------------------------------------------------------------------
MaxGrid == 12         \* the spatial queries are made on the grid 0, 2 .. 2*MaxGrid
MaxTime == 3          \* the clock advances at most MaxTime times
MaxEvents == 4        \* events delivered to the widget in one behaviour of Spec
MaxShort == 3         \* the same, for SpecClick and SpecDrag
MaxAnims == 2         \* animation objects created in one behaviour
MaxLoop == 6          \* turns of the attribute parser's loop within one load
MaxPieces == 2        \* opcodes with their operands in a directive string of SpecLoad
MaxShapes == 6        \* shapes a parser of SpecLoad accumulates

\* ------------------------------------------------------------------------
\* Fixed-point arithmetic
\* ------------------------------------------------------------------------
\* FP is a multiple of 200, 4, 3 and 10, so that 1.005, 1.25, 0.9, 0.5 and the
\* thirds of the animation parameter are exact.
FP == 2 * 2 * 2 * 3 * 5 * 5

Abs(a) == IF a < 0 THEN -a ELSE a
Min(a, b) == IF a < b THEN a ELSE b
Max(a, b) == IF a > b THEN a ELSE b

\* a*b on fixed-point operands (split so that no product leaves 32 bits)
FMul(a, b) == (a \div FP) * b + ((a % FP) * b) \div FP
\* a/b on fixed-point operands, b # 0
FDiv(a, b) == IF b > 0 THEN (a * FP) \div b ELSE ((-a) * FP) \div (-b)
\* int(v): truncation towards zero
int(v) == IF v >= 0 THEN (v \div FP) * FP ELSE -(((-v) \div FP) * FP)

RECURSIVE SqrtSearch(_, _, _)
SqrtSearch(v, lo, hi) ==
    IF lo >= hi THEN lo
    ELSE LET mid == (lo + hi + 1) \div 2
         IN IF FMul(mid, mid) <= v THEN SqrtSearch(v, mid, hi)
                                   ELSE SqrtSearch(v, lo, mid - 1)

\* math.hypot(dx, dy)
hypot(dx, dy) == LET v == FMul(dx, dx) + FMul(dy, dy)
                 IN IF v = 0 THEN 0 ELSE SqrtSearch(v, 0, Max(FP, v))

\* base ** n for a whole exponent n
RECURSIVE PowN(_, _, _)
PowN(base, n, acc) ==
    IF n = 0 THEN acc
    ELSE IF n > 0 THEN PowN(base, n - 1, (acc * base) \div FP)
    ELSE PowN(base, n + 1, (acc * FP) \div base)
\* the product is kept in thousandths of the fixed-point unit, so that the
\* rounding of the steps stays below the unit
pow(base, n) == PowN(base, n, FP * 1000) \div 1000

\* ------------------------------------------------------------------------
\* Scene model and spatial queries
\* ------------------------------------------------------------------------
None == [kind |-> "None"]

Url(item, url) == [kind |-> "Url", item |-> item, url |-> url,
                   highlight |-> {item}]

Jump(item, x, y, highlight) ==
    [kind |-> "Jump", item |-> item, x |-> x, y |-> y, highlight |-> highlight]

\* Node.__init__; id stands for the identity of the Python object
Node(id, cx, cy, w, h, shapes, url) ==
    [id |-> id, x |-> cx, y |-> cy,
     x1 |-> cx - w \div 2, y1 |-> cy - h \div 2,
     x2 |-> cx + w \div 2, y2 |-> cy + h \div 2,
     shapes |-> shapes, url |-> url]

\* node.url: None, or the one-element tuple holding the URL attribute
NoUrl == <<>>

\* variant: the bounds are open
is_inside_open(node, x, y) ==
    node.x1 < x /\ x < node.x2 /\ node.y1 < y /\ y < node.y2

is_inside(node, x, y) ==
    node.x1 <= x /\ x <= node.x2 /\ node.y1 <= y /\ y <= node.y2

Node_get_url(node, x, y) ==
    IF node.url = NoUrl THEN None
    ELSE IF is_inside(node, x, y) THEN Url(node.id, node.url[1])
    ELSE None

Node_get_jump(node, x, y) ==
    IF is_inside(node, x, y) THEN Jump(node.id, node.x, node.y, {node.id})
    ELSE None

square_distance(x1, y1, x2, y2) ==
    LET deltax == x2 - x1
        deltay == y2 - y1
    IN FMul(deltax, deltax) + FMul(deltay, deltay)

Edge(id, src, dst, points, shapes) ==
    [id |-> id, src |-> src, dst |-> dst, points |-> points, shapes |-> shapes]

RADIUS == 10 * FP

\* an exception that leaves a query in place of its value
Raise(raised) == [kind |-> "Raise", raised |-> raised]

\* variant: the radius test excludes the boundary
Edge_get_jump_strict(edge, x, y) ==
    LET first == edge.points[1]
        last == edge.points[Len(edge.points)]
    IN IF edge.points = <<>> THEN Raise("IndexError")
       ELSE IF square_distance(x, y, first[1], first[2]) < FMul(RADIUS, RADIUS)
       THEN Jump(edge.id, edge.dst.x, edge.dst.y, {edge.id, edge.dst.id})
       ELSE IF square_distance(x, y, last[1], last[2]) < FMul(RADIUS, RADIUS)
       THEN Jump(edge.id, edge.src.x, edge.src.y, {edge.id, edge.src.id})
       ELSE None

\* Edge.get_jump; self.points[0] raises IndexError when there is no point
Edge_get_jump(edge, x, y) ==
    LET first == edge.points[1]
        last == edge.points[Len(edge.points)]
    IN IF edge.points = <<>> THEN Raise("IndexError")
       ELSE IF square_distance(x, y, first[1], first[2]) <= FMul(RADIUS, RADIUS)
       THEN Jump(edge.id, edge.dst.x, edge.dst.y, {edge.id, edge.dst.id})
       ELSE IF square_distance(x, y, last[1], last[2]) <= FMul(RADIUS, RADIUS)
       THEN Jump(edge.id, edge.src.x, edge.src.y, {edge.id, edge.src.id})
       ELSE None

Graph(width, height, nodes, edges) ==
    [kind |-> "Graph", width |-> width, height |-> height,
     nodes |-> nodes, edges |-> edges]

\* Graph(): the default arguments of Graph.__init__
EmptyGraph == Graph(1, 1, <<>>, <<>>)

RECURSIVE NodesUrlFrom(_, _, _, _)
NodesUrlFrom(nodes, i, x, y) ==
    IF i > Len(nodes) THEN None
    ELSE LET url == Node_get_url(nodes[i], x, y)
         IN IF url # None THEN url ELSE NodesUrlFrom(nodes, i + 1, x, y)

Graph_get_url(g, x, y) == NodesUrlFrom(g.nodes, 1, x, y)

RECURSIVE NodesJumpFrom(_, _, _, _)
NodesJumpFrom(nodes, i, x, y) ==
    IF i > Len(nodes) THEN None
    ELSE LET jump == Node_get_jump(nodes[i], x, y)
         IN IF jump # None THEN jump ELSE NodesJumpFrom(nodes, i + 1, x, y)

\* the loop over the edges; an exception of edge.get_jump leaves it as a
\* jump found does
RECURSIVE EdgesJumpFrom(_, _, _, _)
EdgesJumpFrom(edges, i, x, y) ==
    IF i > Len(edges) THEN None
    ELSE LET jump == Edge_get_jump(edges[i], x, y)
         IN IF jump # None THEN jump ELSE EdgesJumpFrom(edges, i + 1, x, y)

\* variant: the nodes are tried before the edges
Graph_get_jump_nodes_first(g, x, y) ==
    LET jump == NodesJumpFrom(g.nodes, 1, x, y)
    IN IF jump # None THEN jump ELSE EdgesJumpFrom(g.edges, 1, x, y)

Graph_get_jump(g, x, y) ==
    LET jump == EdgesJumpFrom(g.edges, 1, x, y)
    IN IF jump # None THEN jump ELSE NodesJumpFrom(g.nodes, 1, x, y)

\* ------------------------------------------------------------------------
\* Layout loader (XDotParser)
\* ------------------------------------------------------------------------
\* A layout is what pydot exposes of the annotated graph: bb is the tuple
\* <<xmin, ymin, xmax, ymax>> or NoBB when the attribute is absent; a node has
\* name, pos (<<x, y>> or NoPos), width and height in inches, attrs (the
\* values of the drawing attributes it has, _draw_ first) and URL (NoUrl or
\* <<url>>); an edge has
\* id (its identity), source, destination, pos (the sequence of the entries
\* of two fields that the attribute holds, which may be empty, or NoPos) and
\* attrs.  The names are as pydot returns them, quotes included.
NoBB == <<>>
\* pos is None: a value that is neither a point nor a sequence of points
NoPos == << <<>> >>

transform(xoffset, yoffset, p) ==
    LET xscale == FP
        yscale == -FP
    IN <<FMul(p[1] + xoffset, xscale), FMul(p[2] + yoffset, yscale)>>

RECURSIVE parse_edge_pos(_, _, _)
parse_edge_pos(xoffset, yoffset, pos) ==
    IF pos = <<>> THEN <<>>
    ELSE <<transform(xoffset, yoffset, <<Head(pos)[1] * FP, Head(pos)[2] * FP>>)>>
         \o parse_edge_pos(xoffset, yoffset, Tail(pos))

\* ------------------------------------------------------------------------
\* Drawing-attribute interpreter (XDotAttrParser)
\* ------------------------------------------------------------------------
\* A directive string is a TLA+ string.  The Python string primitives the
\* parser uses are modelled with Python's index rules: positions count from
\* 0, a negative slice index counts from the end, find returns -1 when there
\* is no match.  int() and float() are those of Python 2.7.  The pen is
\* drawing state and is not modelled: the numbers and colours it is given
\* are converted, for the exception the conversion may raise, and dropped.
\* A method that calls another and goes on with its result is written as two
\* operators, the second taking the result as an argument.

\* the characters that stand for each digit of int(tok, base), base <= 16
HexDigits == <<{"0"}, {"1"}, {"2"}, {"3"}, {"4"}, {"5"}, {"6"}, {"7"}, {"8"}, {"9"},
               {"a", "A"}, {"b", "B"}, {"c", "C"}, {"d", "D"}, {"e", "E"},
               {"f", "F"}>>

\* buf[i] for 0 <= i < len(buf)
CharAt(buf, i) == SubSeq(buf, i + 1, i + 1)
\* slice index normalisation
Norm(i, n) == IF i < 0 THEN Max(i + n, 0) ELSE Min(i, n)
\* buf[a:b]
Slice(buf, a, b) ==
    IF Norm(a, Len(buf)) >= Norm(b, Len(buf)) THEN ""
    ELSE SubSeq(buf, Norm(a, Len(buf)) + 1, Norm(b, Len(buf)))
\* buf[a:]
SliceFrom(buf, a) == Slice(buf, a, Len(buf))

\* the least element of a set of positions, -1 for the empty set
FirstOf(S) == IF S = {} THEN -1 ELSE CHOOSE i \in S : \A j \in S : i <= j

\* buf.find(ch, start) for a one-character ch
find(buf, ch, start) ==
    FirstOf({i \in Norm(start, Len(buf))..(Len(buf) - 1) : CharAt(buf, i) = ch})

\* ch.isspace(): space, tab, line feed, carriage return, form feed and the
\* vertical tab (the last, which has no escape, is written as the character)
isspace(ch) == ch \in {" ", "\t", "\n", "\r", "\f", ""}

\* buf.replace(old, new) for a two-character old
RECURSIVE replace(_, _, _)
replace(buf, old, new) ==
    IF Len(buf) < 2 THEN buf
    ELSE IF Slice(buf, 0, 2) = old THEN new \o replace(SliceFrom(buf, 2), old, new)
    ELSE CharAt(buf, 0) \o replace(SliceFrom(buf, 1), old, new)

\* XDotAttrParser.unescape
unescape(buf) == replace(replace(buf, "\\\"", "\""), "\\n", "\n")

\* tok.strip()
RECURSIVE strip(_)
strip(tok) ==
    IF tok = "" THEN tok
    ELSE IF isspace(CharAt(tok, 0)) THEN strip(SliceFrom(tok, 1))
    ELSE IF isspace(CharAt(tok, Len(tok) - 1)) THEN strip(Slice(tok, 0, Len(tok) - 1))
    ELSE tok

\* the value of the digit ch in the given base, -1 if it is not one
DigitOf(ch, base) == FirstOf({d \in 0..(base - 1) : ch \in HexDigits[d + 1]})

\* the value of a string of digits of the given base, -1 if it is not one
RECURSIVE DigitsValue(_, _, _)
DigitsValue(tok, base, acc) ==
    IF tok = "" THEN acc
    ELSE IF DigitOf(CharAt(tok, 0), base) < 0 THEN -1
    ELSE DigitsValue(SliceFrom(tok, 1), base,
                     acc * base + DigitOf(CharAt(tok, 0), base))

\* int(): the number t that follows the sign and the blanks after it; with
\* base 16 its digits may follow "0x" or "0X"
IntBody(neg, t, base) ==
    LET body == IF /\ base = 16
                   /\ Slice(t, 0, 1) = "0"
                   /\ Slice(t, 1, 2) \in {"x", "X"}
                   /\ DigitOf(Slice(t, 2, 3), 16) >= 0
                THEN SliceFrom(t, 2)
                ELSE t
    IN IF body = "" \/ DigitsValue(body, base, 0) < 0 THEN [ok |-> FALSE, val |-> 0]
       ELSE [ok |-> TRUE,
             val |-> (IF neg THEN -1 ELSE 1) * DigitsValue(body, base, 0)]

\* int(tok, base): ok is FALSE when Python raises ValueError.  Blanks may
\* surround the number and follow its sign.
int_of(tok, base) ==
    LET s == strip(tok)
        u == IF Slice(s, 0, 1) \in {"-", "+"} THEN SliceFrom(s, 1) ELSE s
    IN IntBody(Slice(s, 0, 1) = "-",
               SliceFrom(u, FirstOf({i \in 0..Len(u) : ~isspace(Slice(u, i, i + 1))})),
               base)

\* tok.lower() == word, for a word of lower-case letters
IsWord(tok, word) ==
    /\ Len(tok) = Len(word)
    /\ \A i \in 0..(Len(word) - 1) :
          CharAt(tok, i) \in {CharAt(word, i),
                              CharAt("ABCDEFGHIJKLMNOPQRSTUVWXYZ",
                                     find("abcdefghijklmnopqrstuvwxyz", CharAt(word, i), 0))}

\* the number of characters of S that tok starts with
Run(tok, S) == FirstOf({i \in 0..Len(tok) : Slice(tok, i, i + 1) \notin S})

\* A Python float: ok is FALSE when float() raises ValueError; kind is "nan",
\* "inf" or "finite", neg the sign, and a finite number is 0.digits * 10^exp,
\* with the digits of the token (no leading zero; none at all for 0.0).
Float(ok, kind, neg, digits, exp) ==
    [ok |-> ok, kind |-> kind, neg |-> neg, digits |-> digits, exp |-> exp]

\* the sign of 0.a - 0.b for two strings of decimal digits; past the end of
\* a string the digits are zeros
DecimalCmp(a, b) ==
    LET k == FirstOf({i \in 0..(Max(Len(a), Len(b)) - 1) :
                        Max(DigitOf(Slice(a, i, i + 1), 10), 0)
                          # Max(DigitOf(Slice(b, i, i + 1), 10), 0)})
    IN IF k < 0 THEN 0
       ELSE IF Max(DigitOf(Slice(a, k, k + 1), 10), 0)
                 < Max(DigitOf(Slice(b, k, k + 1), 10), 0)
       THEN -1
       ELSE 1

\* The digits of 2^1024 - 2^970, a number of 309 digits: a decimal rounds to
\* inf from there on.
Huge ==
    "1797693134862315807937289714053034150799341327100378269361737789" \o
    "8044496829276475094664901797758720709633028641669288791094655554" \o
    "7851940402630657488671505820681908902000708383676273854845817711" \o
    "5317644757302700698555713669596228429148198608349364752927190741" \o
    "68444365510704342711559699508093042880177904174497792"

\* The digits of 2^-1075, which start at the 324th decimal place: a decimal
\* rounds to 0.0 up to there.
Tiny ==
    "2470328229206232720882843964341106861825299013071623822127928412" \o
    "5033775363510437593264991818081799618989828234772285886546332835" \o
    "5177969898199387398005390939063150356595155702263922908583924491" \o
    "0518443593180284993653615250031937045767824921936562366986365848" \o
    "0757001585769269903706311928279558551332927834338409351978015531" \o
    "2465972635795746227664652728272200563740064854999770965994704540" \o
    "2082816622623785739345073633900796776193057750674017632467360096" \o
    "8951340535537458516661134223766678604162159680461914467291840300" \o
    "5300575308490487653917113865916462395249126236538818796362393732" \o
    "8042389101867234849766823508986338858792562830275599565752445550" \o
    "7255189313690836254779186948667994968324049705821028513185451396" \o
    "213837722826145437693412532098591327667236328125"

\* the double nearest to 0.d * 10^p, for a string d of digits that does not
\* start with 0
Round(neg, d, p) ==
    IF d = "" THEN Float(TRUE, "finite", neg, "", 0)
    ELSE IF p > 309 \/ (p = 309 /\ DecimalCmp(d, Huge) >= 0)
    THEN Float(TRUE, "inf", neg, "", 0)
    ELSE IF p < -323 \/ (p = -323 /\ DecimalCmp(d, Tiny) <= 0)
    THEN Float(TRUE, "finite", neg, "", 0)
    ELSE \* the digits up to the last that is not a zero
         Float(TRUE, "finite", neg,
               Slice(d, 0, -FirstOf({-i : i \in {j \in 1..Len(d) :
                                                   Slice(d, j - 1, j) # "0"}})),
               p)

\* float(): the exponent part rest of a number whose mantissa has the digits
\* d, the first p of them before the point.  An exponent of more than six
\* digits counts as one of 10^6.
Exponent(neg, d, p, rest) ==
    LET ex == IF Slice(rest, 1, 2) \in {"-", "+"} THEN SliceFrom(rest, 2)
              ELSE SliceFrom(rest, 1)
    IN IF d = "" THEN Float(FALSE, "", neg, "", 0)
       ELSE IF rest # "" /\ (\/ Slice(rest, 0, 1) \notin {"e", "E"}
                              \/ ex = ""
                              \/ Run(ex, UNION {HexDigits[k] : k \in 1..10}) # Len(ex))
       THEN Float(FALSE, "", neg, "", 0)
       ELSE Round(neg, SliceFrom(d, Run(d, {"0"})),
                  p - Run(d, {"0"})
                    + (IF Slice(rest, 1, 2) = "-" THEN -1 ELSE 1)
                      * (CASE rest = "" -> 0
                           [] Len(ex) - Run(ex, {"0"}) > 6 -> 1000000
                           [] OTHER -> DigitsValue(ex, 10, 0)))

\* float(): the mantissa of body, whose first i characters are digits and
\* whose next k, after a point, are digits
Mantissa(neg, body, i, k) ==
    Exponent(neg,
             IF Slice(body, i, i + 1) = "."
             THEN Slice(body, 0, i) \o Slice(body, i + 1, i + 1 + k)
             ELSE Slice(body, 0, i),
             i,
             SliceFrom(body, IF Slice(body, i, i + 1) = "." THEN i + 1 + k ELSE i))

\* float(tok)
float_of(tok) ==
    LET s == strip(tok)
        neg == Slice(s, 0, 1) = "-"
        body == IF Slice(s, 0, 1) \in {"-", "+"} THEN SliceFrom(s, 1) ELSE s
        i == Run(body, UNION {HexDigits[k] : k \in 1..10})
    IN IF IsWord(body, "inf") \/ IsWord(body, "infinity") THEN Float(TRUE, "inf", neg, "", 0)
       ELSE IF IsWord(body, "nan") THEN Float(TRUE, "nan", neg, "", 0)
       ELSE Mantissa(neg, body, i,
                     Run(SliceFrom(body, i + 1), UNION {HexDigits[k] : k \in 1..10}))

\* The read_* methods: raised names the exception that leaves the call, val
\* is the value returned and pos the cursor it leaves.
Read(raised, val, pos) == [raised |-> raised, val |-> val, pos |-> pos]

\* the whitespace-skipping loop that ends read_code and read_text, returning
\* res; buf[pos] with pos < -len(buf) raises IndexError
RECURSIVE SkipSpace(_, _, _)
SkipSpace(buf, pos, res) ==
    IF pos >= Len(buf) THEN Read("", res, pos)
    ELSE IF pos < -Len(buf) THEN Read("IndexError", res, pos)
    ELSE IF isspace(CharAt(buf, IF pos < 0 THEN pos + Len(buf) ELSE pos))
    THEN SkipSpace(buf, pos + 1, res)
    ELSE Read("", res, pos)

read_code(buf, pos0) ==
    LET pos == find(buf, " ", pos0)
    IN SkipSpace(buf, pos + 1, Slice(buf, pos0, pos))

\* int(code)
Number(code) ==
    IF code.raised # "" THEN Read(code.raised, 0, code.pos)
    ELSE IF ~int_of(code.val, 10).ok THEN Read("ValueError", 0, code.pos)
    ELSE Read("", int_of(code.val, 10).val, code.pos)

read_number(buf, pos0) == Number(read_code(buf, pos0))

read_float(buf, pos0) ==
    LET code == read_code(buf, pos0)
    IN IF code.raised # "" THEN Read(code.raised, 0, code.pos)
       ELSE IF ~float_of(code.val).ok THEN Read("ValueError", 0, code.pos)
       ELSE Read("", float_of(code.val), code.pos)

\* read_point, from the numbers read
PointOf(xoffset, yoffset, rx, ry) ==
    IF ry.raised # "" THEN Read(ry.raised, <<>>, ry.pos)
    ELSE Read("", transform(xoffset, yoffset, <<rx.val * FP, ry.val * FP>>), ry.pos)

PointAfterX(xoffset, yoffset, buf, rx) ==
    IF rx.raised # "" THEN Read(rx.raised, <<>>, rx.pos)
    ELSE PointOf(xoffset, yoffset, rx, read_number(buf, rx.pos))

read_point(xoffset, yoffset, buf, pos0) ==
    PointAfterX(xoffset, yoffset, buf, read_number(buf, pos0))

\* read_text, from the length num read
TextOf(buf, num) ==
    IF num.raised # "" THEN Read(num.raised, "", num.pos)
    ELSE LET pos == find(buf, "-", num.pos) + 1
         IN SkipSpace(buf, pos + num.val, Slice(buf, pos, pos + num.val))

read_text(buf, pos0) == TextOf(buf, read_number(buf, pos0))

\* the value val followed by the values of rest
Cons(val, rest) == Read(rest.raised, <<val>> \o rest.val, rest.pos)

RECURSIVE ReadPoints(_, _, _, _, _)
PointsAfter(xoffset, yoffset, buf, n, p) ==
    IF p.raised # "" THEN Read(p.raised, <<>>, p.pos)
    ELSE Cons(p.val, ReadPoints(xoffset, yoffset, buf, p.pos, n - 1))

\* the loop of read_polygon
ReadPoints(xoffset, yoffset, buf, pos0, n) ==
    IF n <= 0 THEN Read("", <<>>, pos0)
    ELSE PointsAfter(xoffset, yoffset, buf, n, read_point(xoffset, yoffset, buf, pos0))

PolygonOf(xoffset, yoffset, buf, n) ==
    IF n.raised # "" THEN Read(n.raised, <<>>, n.pos)
    ELSE ReadPoints(xoffset, yoffset, buf, n.pos, n.val)

read_polygon(xoffset, yoffset, buf, pos0) ==
    PolygonOf(xoffset, yoffset, buf, read_number(buf, pos0))

\* c.replace(",", " ").split()
RECURSIVE split(_)
split(c) ==
    IF c = "" THEN <<>>
    ELSE IF isspace(CharAt(c, 0)) \/ CharAt(c, 0) = "," THEN split(SliceFrom(c, 1))
    ELSE LET sep == FirstOf({i \in 0..(Len(c) - 1) :
                               isspace(CharAt(c, i)) \/ CharAt(c, i) = ","})
             e == IF sep < 0 THEN Len(c) ELSE sep
         IN <<Slice(c, 0, e)>> \o split(SliceFrom(c, e))

\* The digits of the number of 308 digits above which six times a double
\* rounds to inf.
Six ==
    "2996155224770526097082110831581747127618979748895809690504822095" \o
    "2418901170610072111259971493392785618190924203654188290146367369" \o
    "4013710121395620959532588941896867358107454552127052179521125229" \o
    "4170526081625794433094519856259056882747313040358832456267544327" \o
    "5847339054900155984998588199295892360991720683339776"

\* colorsys.hsv_to_rgb(h, s, v): the exception that leaves it.  With s == 0.0
\* it returns at once, else it calls int(h*6.0).
hsv_to_rgb(h, s) ==
    IF s.kind = "finite" /\ s.digits = "" THEN ""
    ELSE IF h.kind = "nan" THEN "ValueError"
    ELSE IF h.kind = "inf" \/ h.exp > 308
              \/ (h.exp = 308 /\ DecimalCmp(h.digits, Six) > 0)
    THEN "OverflowError"
    ELSE ""

\* the H,S,V branch of read_color, from floats, the fields under
\* map(float, ...): the unpacking of h, s, v and the conversion
HSVOf(c, floats) ==
    IF Len(floats) # 3 \/ \E k \in 1..Len(floats) : ~floats[k].ok
    THEN Read("ValueError", "", c.pos)
    ELSE Read(hsv_to_rgb(floats[1], floats[2]), c.val, c.pos)

\* read_color, from the text read: the colour itself belongs to the pen; what
\* is kept is whether the conversion raises (hex2float of the three colour
\* bytes, the H,S,V branch) and the cursor
ColorOf(c) ==
    IF c.raised # "" THEN Read(c.raised, "", c.pos)
    ELSE IF Slice(c.val, 0, 1) = "#"
    THEN IF \A k \in {1, 3, 5} : int_of(Slice(c.val, k, k + 2), 16).ok
         THEN Read("", c.val, c.pos)
         ELSE Read("ValueError", "", c.pos)
    ELSE IF Slice(c.val, 0, 1) = "." \/ DigitOf(Slice(c.val, 0, 1), 10) >= 0
    THEN HSVOf(c, [k \in 1..Len(split(c.val)) |-> float_of(split(c.val)[k])])
    ELSE Read("", c.val, c.pos)

read_color(buf, pos0) == ColorOf(read_text(buf, pos0))

RECURSIVE ReadAll(_, _, _, _, _)
ReadRest(xoffset, yoffset, buf, kinds, r) ==
    IF r.raised # "" THEN Read(r.raised, <<>>, r.pos)
    ELSE Cons(r.val, ReadAll(xoffset, yoffset, buf, r.pos, kinds))

\* the reads an opcode makes, one after the other
ReadAll(xoffset, yoffset, buf, pos0, kinds) ==
    IF kinds = <<>> THEN Read("", <<>>, pos0)
    ELSE ReadRest(xoffset, yoffset, buf, Tail(kinds),
                  CASE Head(kinds) = "number" -> read_number(buf, pos0)
                    [] Head(kinds) = "float" -> read_float(buf, pos0)
                    [] Head(kinds) = "text" -> read_text(buf, pos0)
                    [] Head(kinds) = "color" -> read_color(buf, pos0)
                    [] Head(kinds) = "point" -> read_point(xoffset, yoffset, buf, pos0)
                    [] Head(kinds) = "polygon" ->
                         read_polygon(xoffset, yoffset, buf, pos0))

\* the shapes; the pen they copy is not modelled
TextShape(tx, ty, j, w, t) ==
    [kind |-> "Text", x |-> tx, y |-> ty, j |-> j, w |-> w, t |-> t]
EllipseShape(x0, y0, w, h, filled) ==
    [kind |-> "Ellipse", x0 |-> x0, y0 |-> y0, w |-> w, h |-> h, filled |-> filled]
PolygonShape(points, filled) == [kind |-> "Polygon", points |-> points, filled |-> filled]
BezierShape(points) == [kind |-> "Bezier", points |-> points]

\* style.split("(")[1].split(")")[0] of a style that starts with "setlinewidth("
LineWidth(style) ==
    LET tail == SliceFrom(style, 13)
        open == find(tail, "(", 0)
        arg == IF open < 0 THEN tail ELSE Slice(tail, 0, open)
        close == find(arg, ")", 0)
    IN IF close < 0 THEN arg ELSE Slice(arg, 0, close)

Opcodes == {"c", "C", "S", "F", "T", "E", "e", "B", "P", "p"}

\* the shapes an opcode appends, from the values v it read
Handle(op, v) ==
    CASE op = "T" -> <<TextShape(v[1][1], v[1][2], v[2], v[3], v[4])>>
      [] op = "E" -> <<EllipseShape(v[1][1], v[1][2], v[2], v[3], TRUE),
                       EllipseShape(v[1][1], v[1][2], v[2], v[3], FALSE)>>
      [] op = "e" -> <<EllipseShape(v[1][1], v[1][2], v[2], v[3], FALSE)>>
      [] op = "B" -> <<BezierShape(v[1])>>
      [] op = "P" -> <<PolygonShape(v[1], TRUE), PolygonShape(v[1], FALSE)>>
      [] op = "p" -> <<PolygonShape(v[1], FALSE)>>
      [] OTHER -> <<>>

\* the branch of an opcode, from the result r of its reads
Branch(op, r) ==
    IF r.raised # "" THEN [raised |-> r.raised, shapes |-> <<>>, pos |-> r.pos]
    ELSE IF op = "S" /\ Slice(r.val[1], 0, 13) = "setlinewidth("
              /\ ~float_of(LineWidth(r.val[1])).ok
    THEN [raised |-> "ValueError", shapes |-> <<>>, pos |-> r.pos]
    ELSE [raised |-> "", shapes |-> Handle(op, r.val), pos |-> r.pos]

\* the body of the loop of XDotAttrParser.parse for a recognised opcode: the
\* exception it raises, the shapes it appends and the cursor it leaves
Interpret(op, xoffset, yoffset, buf, pos0) ==
    Branch(op, ReadAll(xoffset, yoffset, buf, pos0,
                       CASE op \in {"c", "C"} -> <<"color">>
                         [] op = "S" -> <<"text">>
                         [] op = "F" -> <<"float", "text">>
                         [] op = "T" -> <<"point", "number", "number", "text">>
                         [] op \in {"E", "e"} -> <<"point", "number", "number">>
                         [] op \in {"B", "P", "p"} -> <<"polygon">>))

\* XDotAttrParser.__init__ and the first statements of parse.  status is
\* "run" inside the loop, "return" once parse has returned its shapes, else
\* the exception that left it; unknown is the opcode reported on stderr.
XDotAttrParser(xoffset, yoffset, buf) ==
    [buf |-> unescape(buf), pos |-> 0, shapes |-> <<>>, status |-> "run",
     unknown |-> "", xoffset |-> xoffset, yoffset |-> yoffset]

\* the parser after a recognised opcode whose branch gave r
Handled(s, r) ==
    IF r.raised # "" THEN [s EXCEPT !.pos = r.pos, !.status = r.raised]
    ELSE [s EXCEPT !.pos = r.pos, !.shapes = s.shapes \o r.shapes]

\* variant: an unknown opcode is reported and skipped, the loop goes on
Dispatch_skip_unknown(s, op) ==
    IF op.val \notin Opcodes
    THEN [s EXCEPT !.pos = op.pos, !.unknown = op.val]
    ELSE Handled(s, Interpret(op.val, s.xoffset, s.yoffset, s.buf, op.pos))

\* the body of the loop, from the opcode read
Dispatch(s, op) ==
    IF op.val \notin Opcodes
    THEN [s EXCEPT !.pos = op.pos, !.unknown = op.val, !.status = "return"]
    ELSE Handled(s, Interpret(op.val, s.xoffset, s.yoffset, s.buf, op.pos))

\* one turn of the loop of XDotAttrParser.parse: the test and the body
ParseLoop(s) ==
    IF ~(s.pos < Len(s.buf)) THEN [s EXCEPT !.status = "return"]
    ELSE Dispatch(s, read_code(s.buf, s.pos))

\* the loop, for at most n turns
RECURSIVE RunLoop(_, _)
RunLoop(s, n) ==
    IF s.status # "run" \/ n = 0 THEN s ELSE RunLoop(ParseLoop(s), n - 1)

\* XDotAttrParser(parser, buf).parse(); status is still "run" when the loop
\* has not ended after MaxLoop turns
XDotAttrParser_parse(xoffset, yoffset, buf) ==
    RunLoop(XDotAttrParser(xoffset, yoffset, buf), MaxLoop)

\* ------------------------------------------------------------------------
\* Layout loader, continued
\* ------------------------------------------------------------------------
RECURSIVE ParseAttrs(_, _, _)
AttrsAfter(xoffset, yoffset, attrs, first) ==
    IF first.status # "return" THEN [status |-> first.status, shapes |-> <<>>]
    ELSE LET rest == ParseAttrs(xoffset, yoffset, attrs)
         IN [status |-> rest.status, shapes |-> first.shapes \o rest.shapes]

\* the loop over the drawing attributes the element has:
\* shapes.extend(parser.parse()) for each
ParseAttrs(xoffset, yoffset, attrs) ==
    IF attrs = <<>> THEN [status |-> "return", shapes |-> <<>>]
    ELSE AttrsAfter(xoffset, yoffset, Tail(attrs),
                    XDotAttrParser_parse(xoffset, yoffset, Head(attrs)))

\* name.strip('"')
RECURSIVE StripQuotes(_)
StripQuotes(name) ==
    IF name = "" THEN name
    ELSE IF CharAt(name, 0) = "\"" THEN StripQuotes(SliceFrom(name, 1))
    ELSE IF CharAt(name, Len(name) - 1) = "\""
    THEN StripQuotes(Slice(name, 0, Len(name) - 1))
    ELSE name

\* the body of the loop over the nodes, from the shapes r parsed: my_node and
\* the key it gets in node_by_name
RECURSIVE BuildNodes(_, _, _)
NodesAfter(xoffset, yoffset, node, lnodes, r) ==
    IF r.status # "return" THEN [status |-> r.status, built |-> <<>>]
    ELSE LET xy == transform(xoffset, yoffset, <<node.pos[1] * FP, node.pos[2] * FP>>)
             rest == BuildNodes(xoffset, yoffset, lnodes)
         IN [status |-> rest.status,
             built |-> <<[key |-> StripQuotes(node.name),
                          node |-> Node(node.name, xy[1], xy[2], node.width * 72,
                                        node.height * 72, r.shapes, node.URL)]>>
                       \o rest.built]

\* the loop over graph.get_node_list(): the Node objects created, in order,
\* those without shapes included, each with its key
BuildNodes(xoffset, yoffset, lnodes) ==
    IF lnodes = <<>> THEN [status |-> "return", built |-> <<>>]
    ELSE IF Head(lnodes).pos = NoPos THEN BuildNodes(xoffset, yoffset, Tail(lnodes))
    ELSE NodesAfter(xoffset, yoffset, Head(lnodes), Tail(lnodes),
                    ParseAttrs(xoffset, yoffset, Head(lnodes).attrs))

\* name in node_by_name
HasKey(built, name) == \E i \in 1..Len(built) : built[i].key = name

\* node_by_name[name]: the last node stored under that key
NodeByName(built, name) ==
    built[CHOOSE i \in 1..Len(built) :
              /\ built[i].key = name
              /\ \A j \in 1..Len(built) : built[j].key = name => j <= i].node

\* nodes.append(my_node) for the nodes that have shapes
RECURSIVE SelectShaped(_)
SelectShaped(s) ==
    IF s = <<>> THEN <<>>
    ELSE IF Head(s).node.shapes # <<>> THEN <<Head(s).node>> \o SelectShaped(Tail(s))
    ELSE SelectShaped(Tail(s))

RECURSIVE BuildEdges(_, _, _, _)
EdgesAfter(xoffset, yoffset, built, edge, ledges, r) ==
    IF r.status # "return" THEN [status |-> r.status, edges |-> <<>>]
    ELSE IF r.shapes = <<>> THEN BuildEdges(xoffset, yoffset, built, ledges)
    ELSE IF ~HasKey(built, edge.source) \/ ~HasKey(built, edge.destination)
    THEN [status |-> "KeyError", edges |-> <<>>]
    ELSE LET rest == BuildEdges(xoffset, yoffset, built, ledges)
         IN [status |-> rest.status,
             edges |-> <<Edge(edge.id, NodeByName(built, edge.source),
                              NodeByName(built, edge.destination),
                              parse_edge_pos(xoffset, yoffset, edge.pos), r.shapes)>>
                       \o rest.edges]

\* the loop over graph.get_edge_list()
BuildEdges(xoffset, yoffset, built, ledges) ==
    IF ledges = <<>> THEN [status |-> "return", edges |-> <<>>]
    ELSE IF Head(ledges).pos = NoPos THEN BuildEdges(xoffset, yoffset, built, Tail(ledges))
    ELSE EdgesAfter(xoffset, yoffset, built, Head(ledges), Tail(ledges),
                    ParseAttrs(xoffset, yoffset, Head(ledges).attrs))

GraphParseError == [kind |-> "GraphParseError"]

\* the end of XDotParser.parse, from the nodes and the edges built
GraphOf(width, height, nodes, edges) ==
    IF edges.status # "return" THEN [raised |-> edges.status, value |-> None]
    ELSE [raised |-> "",
          value |-> Graph(width, height, SelectShaped(nodes.built), edges.edges)]

\* XDotParser.parse after the node loop
ParseEdges(xoffset, yoffset, width, height, layout, nodes) ==
    IF nodes.status # "return" THEN [raised |-> nodes.status, value |-> None]
    ELSE GraphOf(width, height, nodes,
                 BuildEdges(xoffset, yoffset, nodes.built, layout.edges))

\* XDotParser.parse: raised names the exception that leaves the call ("" when
\* it returns, "run" when a drawing attribute keeps its parser in the loop),
\* value is the object returned
XDotParser_parse(layout) ==
    IF layout.bb = NoBB THEN [raised |-> "", value |-> GraphParseError]
    ELSE ParseEdges(-layout.bb[1] * FP, -layout.bb[4] * FP,
                    layout.bb[3] - layout.bb[1], layout.bb[4] - layout.bb[2], layout,
                    BuildNodes(-layout.bb[1] * FP, -layout.bb[4] * FP, layout.nodes))

\* ------------------------------------------------------------------------
\* Inputs: the layouts that are loaded and the events that are delivered
\* ------------------------------------------------------------------------
\* Two nodes and one edge.  On the canvas node "a" (with a URL) covers
\* [-1,17]x[-1,17], node "b" (with a URL that holds a byte outside ASCII)
\* covers [23,41]x[23,41], and edge "e" runs from (14,14) to (26,26).  Widths are in fixed-point inches (0.25 inch).
LayoutA ==
    [bb |-> <<0, 0, 40, 40>>,
     nodes |-> << [name |-> "a", pos |-> <<8, 32>>, width |-> FP \div 4,
                   height |-> FP \div 4, attrs |-> <<"e 8 32 9 9 ">>,
                   URL |-> <<"http://a">>],
                  [name |-> "b", pos |-> <<32, 8>>, width |-> FP \div 4,
                   height |-> FP \div 4, attrs |-> <<"e 32 8 9 9 ">>,
                   URL |-> <<"http://é">>] >>,
     edges |-> << [id |-> "e", source |-> "a", destination |-> "b",
                   pos |-> << <<14, 26>>, <<20, 20>>, <<26, 14>> >>,
                   attrs |-> <<"B 3 14 26 20 20 26 14 ">>] >>]

\* Overlapping elements, for the spatial queries.  On the canvas node "a"
\* covers [0,12]x[0,12], node "c" (added after "a") covers [4,16]x[0,12],
\* node "b" covers [15,21]x[15,21]; edge "e1" runs from (2,2) to (22,22),
\* edge "e2" from (4,2) to (24,24), and the short edge "e3" from (20,4) to
\* (24,4).
LayoutB ==
    [bb |-> <<0, 0, 24, 24>>,
     nodes |-> << [name |-> "a", pos |-> <<6, 18>>, width |-> FP \div 6,
                   height |-> FP \div 6, attrs |-> <<"e 6 18 9 9 ">>, URL |-> NoUrl],
                  [name |-> "c", pos |-> <<10, 18>>, width |-> FP \div 6,
                   height |-> FP \div 6, attrs |-> <<"e 10 18 9 9 ">>, URL |-> <<"http://c">>],
                  [name |-> "b", pos |-> <<18, 6>>, width |-> FP \div 12,
                   height |-> FP \div 12, attrs |-> <<"e 18 6 9 9 ">>, URL |-> <<"http://b">>] >>,
     edges |-> << [id |-> "e1", source |-> "a", destination |-> "b",
                   pos |-> << <<2, 22>>, <<12, 12>>, <<22, 2>> >>,
                   attrs |-> <<"B 3 2 22 12 12 22 2 ">>],
                  [id |-> "e2", source |-> "c", destination |-> "b",
                   pos |-> << <<4, 22>>, <<24, 0>> >>,
                   attrs |-> <<"B 2 4 22 24 0 ">>],
                  [id |-> "e3", source |-> "b", destination |-> "a",
                   pos |-> << <<20, 20>>, <<24, 20>> >>,
                   attrs |-> <<"B 2 20 20 24 20 ">>] >>]

\* Overlapping nodes with URLs.  On the canvas node "n" (no URL) covers
\* [0,12]x[0,12], node "u" covers [0,12]x[2,14] and node "v" (added after "u")
\* covers [6,18]x[2,14].
LayoutC ==
    [bb |-> <<0, 0, 24, 24>>,
     nodes |-> << [name |-> "n", pos |-> <<6, 18>>, width |-> FP \div 6,
                   height |-> FP \div 6, attrs |-> <<"e 6 18 9 9 ">>, URL |-> NoUrl],
                  [name |-> "u", pos |-> <<6, 16>>, width |-> FP \div 6,
                   height |-> FP \div 6, attrs |-> <<"e 6 16 9 9 ">>, URL |-> <<"http://u">>],
                  [name |-> "v", pos |-> <<12, 16>>, width |-> FP \div 6,
                   height |-> FP \div 6, attrs |-> <<"e 12 16 9 9 ">>, URL |-> <<"http://v">>] >>,
     edges |-> <<>>]

\* LayoutA with an unknown opcode "z" in the middle of the _draw_ attribute
\* of node "a" (which also has an _ldraw_ attribute) and at the head of the
\* second of the three drawing attributes of edge "e".
LayoutD ==
    [bb |-> <<0, 0, 40, 40>>,
     nodes |-> << [name |-> "a", pos |-> <<8, 32>>, width |-> FP \div 4,
                   height |-> FP \div 4,
                   attrs |-> <<"e 8 32 9 9 z e 1 1 1 1 ", "T 8 32 0 7 1 -a ">>,
                   URL |-> <<"http://a">>],
                  [name |-> "b", pos |-> <<32, 8>>, width |-> FP \div 4,
                   height |-> FP \div 4, attrs |-> <<"e 32 8 9 9 ">>,
                   URL |-> NoUrl] >>,
     edges |-> << [id |-> "e", source |-> "a", destination |-> "b",
                   pos |-> << <<14, 26>>, <<20, 20>>, <<26, 14>> >>,
                   attrs |-> <<"B 3 14 26 20 20 26 14 ", "z B 2 1 1 2 2 ",
                               "e 26 14 2 2 ">>] >>]

\* Node "h" is laid out but has no drawing attribute (an invisible node); the
\* edge "e" ends at it.
LayoutE ==
    [bb |-> <<0, 0, 40, 40>>,
     nodes |-> << [name |-> "a", pos |-> <<8, 32>>, width |-> FP \div 4,
                   height |-> FP \div 4, attrs |-> <<"e 8 32 9 9 ">>,
                   URL |-> NoUrl],
                  [name |-> "h", pos |-> <<32, 8>>, width |-> FP \div 4,
                   height |-> FP \div 4, attrs |-> <<>>, URL |-> NoUrl] >>,
     edges |-> << [id |-> "e", source |-> "a", destination |-> "h",
                   pos |-> << <<14, 26>>, <<26, 14>> >>,
                   attrs |-> <<"B 2 14 26 26 14 ">>] >>]

\* The edge "e" ends at "q", which is not a node of the layout; the edge "d",
\* which has no shapes, ends there too and comes first.
LayoutF ==
    [bb |-> <<0, 0, 40, 40>>,
     nodes |-> << [name |-> "a", pos |-> <<8, 32>>, width |-> FP \div 4,
                   height |-> FP \div 4, attrs |-> <<"e 8 32 9 9 ">>,
                   URL |-> NoUrl] >>,
     edges |-> << [id |-> "d", source |-> "a", destination |-> "q",
                   pos |-> << <<14, 26>>, <<26, 14>> >>, attrs |-> <<>>],
                  [id |-> "e", source |-> "a", destination |-> "q",
                   pos |-> << <<14, 26>>, <<26, 14>> >>,
                   attrs |-> <<"B 2 14 26 26 14 ">>] >>]

\* The name of node "a b" is quoted in the source, and pydot returns it with
\* its quotes, for the node and for the ends of the edge "e".
LayoutG ==
    [bb |-> <<0, 0, 40, 40>>,
     nodes |-> << [name |-> "\"a b\"", pos |-> <<8, 32>>, width |-> FP \div 4,
                   height |-> FP \div 4, attrs |-> <<"e 8 32 9 9 ">>,
                   URL |-> NoUrl],
                  [name |-> "b", pos |-> <<32, 8>>, width |-> FP \div 4,
                   height |-> FP \div 4, attrs |-> <<"e 32 8 9 9 ">>,
                   URL |-> NoUrl] >>,
     edges |-> << [id |-> "e", source |-> "\"a b\"", destination |-> "b",
                   pos |-> << <<14, 26>>, <<26, 14>> >>,
                   attrs |-> <<"B 2 14 26 26 14 ">>] >>]

\* the layout engine resolved no positions: there is no bb attribute
LayoutNoBB == [bb |-> NoBB, nodes |-> <<>>, edges |-> <<>>]

\* XDotParser(xdotcode).parse() for the layouts of the model, computed once
ParsedLayouts ==
    {<<layout, XDotParser_parse(layout)>> :
        layout \in {LayoutA, LayoutB, LayoutC, LayoutD, LayoutE, LayoutF, LayoutG,
                    LayoutNoBB}}
parse(layout) == (CHOOSE p \in ParsedLayouts : p[1] = layout)[2]

\* gtk.gdk modifier masks
SHIFT_MASK == 1
CONTROL_MASK == 4

\* Pointer positions in window pixels.  With LayoutA loaded and the viewport
\* centred: PU and PU4 are inside node "a" (PU4 exactly 4 from PU), and PJ is
\* within the radius of the first point of edge "e" and inside no node.
PU == <<4, 4>>
PU4 == <<8, 4>>
PJ == <<20, 14>>

\* widget.get_allocation(): the size of the drawing area, in pixels
rect == [width |-> 40, height |-> 40]
\* a drawing area that the margins of zoom_to_fit (12 pixels on each side)
\* fill entirely
Narrow == [width |-> 24, height |-> 24]

\* ------------------------------------------------------------------------
\* State
\* ------------------------------------------------------------------------
VARIABLES
    graph,        \* DotWidget.graph
    x, y,         \* DotWidget.x, DotWidget.y: the focus, in graph space
    zoom_ratio,   \* DotWidget.zoom_ratio
    animation,    \* DotWidget.animation: 0 for a NoAnimation, else an index of anims
    drag_action,  \* DotWidget.drag_action
    presstime,    \* DotWidget.presstime (NoTime for None)
    pressx,       \* DotWidget.pressx
    pressy,       \* DotWidget.pressy
    highlight,    \* DotWidget.highlight
    anims,        \* the ZoomToAnimation objects created so far
    timers,       \* the gobject timeout sources that are armed
    clock,        \* time.time()
    nevents,      \* number of events delivered so far
    ev,           \* the last event delivered
    last_press,   \* the most recent button-press event delivered
    attr,         \* the XDotAttrParser at work on a directive string
    out           \* what its handler did: calls made, value returned or raised

vars == <<graph, x, y, zoom_ratio, animation, drag_action, presstime, pressx,
          pressy, highlight, anims, timers, clock, nevents, ev, last_press, out,
          attr>>

NoTime == -1
NoSource == 0
NoHighlight == [kind |-> "None", items |-> {}]
Highlight(items) == [kind |-> "set", items |-> items]

\* a drag action object; the mouse fields are 0 until on_button_press sets them
DragAction(type, mx, my) ==
    [type |-> type, startmousex |-> mx, startmousey |-> my,
     prevmousex |-> mx, prevmousey |-> my]
NullAction == DragAction("NullAction", 0, 0)

\* an event as the handlers see it: the gdk event fields they read, and key
\* for the key value, scroll direction or other argument
Event(type, button, state, px, py, key) ==
    [type |-> type, button |-> button, state |-> state,
     x |-> px * FP, y |-> py * FP, key |-> key]
NoEvent == Event("none", 0, 0, 0, 0, "")
\* a press event and the time of its delivery
NoPress == [event |-> NoEvent, time |-> NoTime]

\* value is the object a query returned (None for the event handlers)
Out(ret, raised, calls) ==
    [ret |-> ret, raised |-> raised, calls |-> calls, value |-> None]

\* no XDotAttrParser has been created
NoParser == [buf |-> "", pos |-> 0, shapes |-> <<>>, status |-> "none",
             unknown |-> "", xoffset |-> 0, yoffset |-> 0]

\* DotWidget.__init__
Init ==
    /\ graph = EmptyGraph
    /\ x = 0
    /\ y = 0
    /\ zoom_ratio = FP
    /\ animation = 0
    /\ drag_action = NullAction
    /\ presstime = NoTime
    /\ pressx = 0
    /\ pressy = 0
    /\ highlight = NoHighlight
    /\ anims = <<>>
    /\ timers = {}
    /\ clock = 0
    /\ nevents = 0
    /\ ev = NoEvent
    /\ last_press = NoPress
    /\ out = Out("None", "", <<>>)
    /\ attr = NoParser

\* ------------------------------------------------------------------------
\* Viewport controller
\* ------------------------------------------------------------------------
\* DotWidget.window2graph, for the viewport (fx, fy, zoom): the graph point,
\* or the ZeroDivisionError that x /= self.zoom_ratio raises at zoom ratio 0
window2graph(fx, fy, zoom, px, py) ==
    IF zoom = 0 THEN Raise("ZeroDivisionError")
    ELSE << FDiv(px - FMul(FP \div 2, rect.width * FP), zoom) + fx,
            FDiv(py - FMul(FP \div 2, rect.height * FP), zoom) + fy >>

\* DotWidget.get_url / DotWidget.get_jump: window2graph first, then the query
\* on self.graph, which has no such method when it is the GraphParseError
\* object a failed load has stored
get_url(g, fx, fy, zoom, px, py) ==
    LET p == window2graph(fx, fy, zoom, px, py)
    IN IF zoom = 0 THEN p
       ELSE IF g.kind # "Graph" THEN Raise("AttributeError")
       ELSE Graph_get_url(g, p[1], p[2])

get_jump(g, fx, fy, zoom, px, py) ==
    LET p == window2graph(fx, fy, zoom, px, py)
    IN IF zoom = 0 THEN p
       ELSE IF g.kind # "Graph" THEN Raise("AttributeError")
       ELSE Graph_get_jump(g, p[1], p[2])

\* DotWidget.zoom_to_area: the viewport it sets, or the ZeroDivisionError that
\* float(rect.width)/float(width) raises for an empty area
zoom_to_area(x1, y1, x2, y2) ==
    LET width == Abs(x1 - x2)
        height == Abs(y1 - y2)
    IN IF width = 0 \/ height = 0
       THEN [raised |-> "ZeroDivisionError", zoom_ratio |-> 0, x |-> 0, y |-> 0]
       ELSE [raised |-> "",
             zoom_ratio |-> Min(FDiv(rect.width * FP, width),
                                FDiv(rect.height * FP, height)),
             x |-> (x1 + x2) \div 2,
             y |-> (y1 + y2) \div 2]

ZOOM_INCREMENT == (FP * 5) \div 4
POS_INCREMENT == 100 * FP

\* ------------------------------------------------------------------------
\* Animation engine
\* ------------------------------------------------------------------------
duration == (FP * 6) \div 10      \* LinearAnimation.duration

\* ZoomToAnimation.__init__ for the viewport (fx, fy, zoom): the animation
\* object, or the ZeroDivisionError that the division by the zoom ratio
\* raises, which comes before the test of the distance
ZoomToAnimation(fx, fy, zoom, target_x, target_y) ==
    LET source_zoom == zoom
        target_zoom == source_zoom
        middle_zoom == FMul(FP \div 2, source_zoom + target_zoom)
        distance == hypot(fx - target_x, fy - target_y)
        visible == FMul(FDiv(Min(rect.width, rect.height) * FP, zoom), (FP * 9) \div 10)
        extra_zoom == IF distance > 0
                      THEN Min(0, 4 * (FDiv(visible, distance) - middle_zoom))
                      ELSE 0
    IN IF zoom = 0 THEN Raise("ZeroDivisionError")
       ELSE [kind |-> "ZoomToAnimation",
             started |-> NoTime, timeout_id |-> NoSource,
             source_x |-> fx, source_y |-> fy,
             target_x |-> target_x, target_y |-> target_y,
             source_zoom |-> source_zoom, target_zoom |-> target_zoom,
             extra_zoom |-> extra_zoom]

\* ZoomToAnimation.animate / MoveToAnimation.animate: the viewport at t
animate(a, t) ==
    [zoom_ratio |-> FMul(a.target_zoom, t) + FMul(FMul(a.extra_zoom, t), FP - t)
                    + FMul(a.source_zoom, FP - t),
     x |-> FMul(a.target_x, t) + FMul(a.source_x, FP - t),
     y |-> FMul(a.target_y, t) + FMul(a.source_y, FP - t)]

\* self.animation.stop(): Animation.stop for an animation object,
\* NoAnimation.stop (pass) for a NoAnimation
StopAnims(active) ==
    IF active = 0 THEN anims
    ELSE [anims EXCEPT ![active].timeout_id = NoSource]
StopTimers(active) ==
    IF active = 0 THEN timers
    ELSE timers \ {anims[active].timeout_id}

\* variant: t is passed to animate as computed, not clamped to [0, 1]
Tick_unclamped(i) ==
    /\ i \in timers
    /\ LET a == anims[i]
           t == FDiv(clock - a.started, duration)
           v == animate(a, t)
       IN /\ zoom_ratio' = v.zoom_ratio
          /\ x' = v.x
          /\ y' = v.y
          /\ timers' = IF t < FP THEN timers ELSE timers \ {i}
          /\ ev' = Event("tick", 0, 0, 0, 0, "")
          /\ out' = Out(IF t < FP THEN "True" ELSE "False", "", <<<<"tick", ToString(i)>>>>)
    /\ UNCHANGED attr
    /\ UNCHANGED <<graph, animation, drag_action, presstime, pressx, pressy,
                   highlight, anims, clock, nevents, last_press>>

\* LinearAnimation.tick, run by gobject for the armed source i
Tick(i) ==
    /\ i \in timers
    /\ LET a == anims[i]
           t == FDiv(clock - a.started, duration)
           v == animate(a, Max(0, Min(t, FP)))
       IN /\ zoom_ratio' = v.zoom_ratio
          /\ x' = v.x
          /\ y' = v.y
          /\ timers' = IF t < FP THEN timers ELSE timers \ {i}
          /\ ev' = Event("tick", 0, 0, 0, 0, "")
          /\ out' = Out(IF t < FP THEN "True" ELSE "False", "", <<<<"tick", ToString(i)>>>>)
    /\ UNCHANGED attr
    /\ UNCHANGED <<graph, animation, drag_action, presstime, pressx, pressy,
                   highlight, anims, clock, nevents, last_press>>

\* time passes
TimeStep == FP \div 2
Advance ==
    /\ clock < MaxTime * TimeStep
    /\ clock' = clock + TimeStep
    /\ UNCHANGED attr
    /\ UNCHANGED <<graph, x, y, zoom_ratio, animation, drag_action, presstime,
                   pressx, pressy, highlight, anims, timers, nevents, ev,
                   last_press, out>>

\* ------------------------------------------------------------------------
\* Loading a graph
\* ------------------------------------------------------------------------
\* DotWidget.set_dotcode, on the layout that dot -Txdot produced
SetDotcode(layout) ==
    /\ nevents' = nevents + 1
    /\ ev' = Event("load", 0, 0, 0, 0, IF layout.bb = NoBB THEN "nobb" ELSE "bb")
    /\ \E r \in {parse(layout)} :
          /\ r.raised # "run"
          /\ IF r.raised # ""
             THEN \* the exception leaves parse, set_xdotcode and set_dotcode
                  /\ out' = Out("None", r.raised, <<>>)
                  /\ UNCHANGED <<graph, x, y, zoom_ratio>>
             ELSE /\ graph' = r.value
                  /\ IF r.value.kind = "Graph"
                     THEN \* zoom_image(self.zoom_ratio, center=True)
                          /\ x' = (r.value.width \div 2) * FP
                          /\ y' = (r.value.height \div 2) * FP
                          /\ zoom_ratio' = zoom_ratio
                          /\ out' = Out("True", "", <<>>)
                     ELSE \* self.graph.width: the exception object has no width
                          /\ out' = Out("None", "AttributeError", <<>>)
                          /\ UNCHANGED <<x, y, zoom_ratio>>
    /\ UNCHANGED attr
    /\ UNCHANGED <<animation, drag_action, presstime, pressx, pressy, highlight,
                   anims, timers, clock, last_press>>

\* ------------------------------------------------------------------------
\* Interaction state machine
\* ------------------------------------------------------------------------
\* state & mask, for a mask with a single bit
HasMask(state, mask) == (state \div mask) % 2 = 1

\* variant: only the primary button starts a drag
get_drag_action_primary_only(button, state) ==
    IF button = 1
    THEN IF HasMask(state, CONTROL_MASK) THEN "ZoomAction"
         ELSE IF HasMask(state, SHIFT_MASK) THEN "ZoomAreaAction"
         ELSE "PanAction"
    ELSE "NullAction"

\* DotWidget.get_drag_action
get_drag_action(button, state) ==
    IF button \in {1, 2}
    THEN IF HasMask(state, CONTROL_MASK) THEN "ZoomAction"
         ELSE IF HasMask(state, SHIFT_MASK) THEN "ZoomAreaAction"
         ELSE "PanAction"
    ELSE "NullAction"

click_fuzz == 4 * FP
click_timeout == FP

\* variant: a release exactly click_fuzz away still counts
is_click_inclusive(ptime, px, py, now, ex, ey) ==
    IF ptime = NoTime THEN FALSE
    ELSE LET deltax == px - ex
             deltay == py - ey
         IN now < ptime + click_timeout /\ hypot(deltax, deltay) <= click_fuzz

\* DotWidget.is_click, at time now, for a release at (ex, ey)
is_click(ptime, px, py, now, ex, ey) ==
    IF ptime = NoTime THEN FALSE
    ELSE LET deltax == px - ex
             deltay == py - ey
         IN now < ptime + click_timeout /\ hypot(deltax, deltay) < click_fuzz

\* variant: any button clicks
is_any_button_click(button, ptime, px, py, now, ex, ey) ==
    is_click(ptime, px, py, now, ex, ey)

\* the condition of on_area_button_release under which the hit tests are made
is_primary_click(button, ptime, px, py, now, ex, ey) ==
    button = 1 /\ is_click(ptime, px, py, now, ex, ey)

\* DotWidget.on_area_button_press
Press(button, state, p) ==
    /\ nevents' = nevents + 1
    /\ ev' = Event("press", button, state, p[1], p[2], "")
    /\ LET type == get_drag_action(button, state)
       IN /\ animation' = 0
          /\ anims' = StopAnims(animation)
          /\ timers' = StopTimers(animation)
          /\ drag_action' = DragAction(type, p[1] * FP, p[2] * FP)
          /\ out' = Out("False", "",
                        << <<"animation.stop", "">>,
                           <<"abort", drag_action.type>>,
                           <<"new", type>>,
                           <<"on_button_press", type>> >>)
    /\ presstime' = clock
    /\ pressx' = p[1] * FP
    /\ pressy' = p[2] * FP
    /\ last_press' = [event |-> ev', time |-> clock]
    /\ UNCHANGED attr
    /\ UNCHANGED <<graph, x, y, zoom_ratio, highlight, clock>>

\* DragAction.on_button_release -> stop(): the viewport it leaves, or the
\* exception it raises
ActionStop(e) ==
    IF drag_action.type = "ZoomAreaAction"
    THEN LET p1 == window2graph(x, y, zoom_ratio, drag_action.startmousex,
                                drag_action.startmousey)
             p2 == window2graph(x, y, zoom_ratio, e.x, e.y)
         IN IF zoom_ratio = 0
            THEN \* window2graph raises, before zoom_to_area is called
                 [raised |-> p1.raised, zoom_ratio |-> zoom_ratio, x |-> x, y |-> y]
            ELSE zoom_to_area(p1[1], p1[2], p2[1], p2[2])
    ELSE [raised |-> "", zoom_ratio |-> zoom_ratio, x |-> x, y |-> y]

\* DotWidget.on_area_button_release
\* unicode(s) for a byte string s, with the default encoding Python 2 starts
\* with (ASCII): a byte outside ASCII raises UnicodeDecodeError.  A character
\* of the model that is not one of these stands for such a byte.
unicode(s) ==
    IF \A i \in 0..(Len(s) - 1) :
          \/ isspace(CharAt(s, i))
          \/ find(" !\"#$%&'()*+,-./0123456789:;<=>?@ABCDEFGHIJKLMNOPQRSTUVWXYZ"
                     \o "[\\]^_abcdefghijklmnopqrstuvwxyz{|}~", CharAt(s, i), 0) >= 0
    THEN [raised |-> "", val |-> s]
    ELSE [raised |-> "UnicodeDecodeError", val |-> ""]

Release(button, p) ==
    /\ nevents' = nevents + 1
    /\ LET e == Event("release", button, 0, p[1], p[2], "")
           v == ActionStop(e)
           stopped == <<"stop", drag_action.type>>
           click == is_primary_click(button, presstime, pressx, pressy, clock, e.x, e.y)
           tested == <<"click", IF click THEN "True" ELSE "False">>
       IN /\ ev' = e
          /\ IF v.raised # ""
             THEN \* the exception leaves the handler at its first statement
                  /\ out' = Out("None", v.raised, <<stopped>>)
                  /\ UNCHANGED <<x, y, zoom_ratio, drag_action, animation, anims,
                                 timers>>
             ELSE
               /\ x' = v.x
               /\ y' = v.y
               /\ zoom_ratio' = v.zoom_ratio
               /\ drag_action' = NullAction
               /\ IF click
                  THEN   LET url == get_url(graph, v.x, v.y, v.zoom_ratio, int(e.x), int(e.y))
                             jump == get_jump(graph, v.x, v.y, v.zoom_ratio, int(e.x), int(e.y))
                         IN IF url.kind = "Raise"
                            THEN \* the exception of get_url leaves the handler:
                                 \* the division by a zoom ratio of 0, or
                                 \* self.graph.get_url on a graph that is none
                                 /\ out' = Out("None", url.raised,
                                               <<stopped, tested, <<"get_url", "">> >>)
                                 /\ UNCHANGED <<animation, anims, timers>>
                            ELSE IF url # None
                            THEN \* self.emit('clicked', unicode(url.url), event)
                                 /\ out' = IF unicode(url.url).raised # ""
                                           THEN Out("None", unicode(url.url).raised,
                                                    <<stopped, tested,
                                                      <<"get_url", "">> >>)
                                           ELSE Out("True", "",
                                                    <<stopped, tested,
                                                      <<"get_url", "">>,
                                                      <<"emit clicked",
                                                        unicode(url.url).val>> >>)
                                 /\ UNCHANGED <<animation, anims, timers>>
                            ELSE IF jump.kind = "Raise"
                            THEN \* the exception of get_jump leaves the handler
                                 /\ out' = Out("None", jump.raised,
                                               <<stopped, tested, <<"get_url", "">>,
                                                 <<"get_jump", "">> >>)
                                 /\ UNCHANGED <<animation, anims, timers>>
                            ELSE IF jump # None
                            THEN \* animate_to(jump.x, jump.y); the zoom ratio is
                                 \* not 0 here, window2graph has divided by it
                                 /\ Len(anims) < MaxAnims
                                 /\ LET id == Len(anims) + 1
                                        a == ZoomToAnimation(v.x, v.y, v.zoom_ratio,
                                                             jump.x, jump.y)
                                    IN /\ animation' = id
                                       /\ anims' = Append(anims,
                                              [a EXCEPT !.started = clock,
                                                        !.timeout_id = id])
                                       /\ timers' = timers \cup {id}
                                 /\ out' = Out("True", "",
                                               <<stopped, tested, <<"get_url", "">>,
                                                 <<"get_jump", "">>,
                                                 <<"animate_to", jump.item>> >>)
                            ELSE /\ out' = Out("True", "",
                                               <<stopped, tested, <<"get_url", "">>,
                                                 <<"get_jump", "">> >>)
                                 /\ UNCHANGED <<animation, anims, timers>>
                  ELSE /\ out' = Out(IF button \in {1, 2} THEN "True" ELSE "False",
                                     "", <<stopped, tested>>)
                       /\ UNCHANGED <<animation, anims, timers>>
    /\ UNCHANGED attr
    /\ UNCHANGED <<graph, presstime, pressx, pressy, highlight, clock, last_press>>

\* DotWidget.set_highlight
set_highlight(items) == IF highlight # items THEN items ELSE highlight

\* DotWidget.on_area_motion_notify
Motion(p) ==
    /\ nevents' = nevents + 1
    /\ LET e == Event("motion", 0, 0, p[1], p[2], "")
           deltax == drag_action.prevmousex - e.x
           deltay == drag_action.prevmousey - e.y
           moved == [drag_action EXCEPT !.prevmousex = e.x, !.prevmousey = e.y]
           type == drag_action.type
       IN /\ ev' = e
          /\ IF type = "NullAction"
             THEN \* NullAction.on_motion_notify
                  /\ UNCHANGED <<x, y, zoom_ratio, drag_action>>
                  /\ LET url == get_url(graph, x, y, zoom_ratio, e.x, e.y)
                         item == IF url # None THEN url
                                 ELSE get_jump(graph, x, y, zoom_ratio, e.x, e.y)
                     IN IF item.kind = "Raise"
                        THEN \* the exception of get_url (the division by a
                             \* zoom ratio of 0, or a graph that is none) or
                             \* of get_jump leaves the handler
                             /\ out' = Out("None", item.raised,
                                           <<<<IF url.kind = "Raise" THEN "get_url"
                                               ELSE "get_jump", "">>>>)
                             /\ UNCHANGED highlight
                        ELSE /\ highlight' = IF item # None
                                             THEN set_highlight(Highlight(item.highlight))
                                             ELSE set_highlight(NoHighlight)
                             /\ out' = Out("True", "", <<<<"set_highlight", "">>>>)
             ELSE IF type = "PanAction" /\ zoom_ratio = 0
             THEN \* PanAction.drag: deltax / zoom_ratio raises, and
                  \* on_motion_notify does not come to set prevmousex
                  /\ out' = Out("None", "ZeroDivisionError", <<<<"drag", type>>>>)
                  /\ UNCHANGED <<x, y, zoom_ratio, drag_action, highlight>>
             ELSE \* DragAction.on_motion_notify -> drag(deltax, deltay)
                  /\ drag_action' = moved
                  /\ out' = Out("True", "", <<<<"drag", type>>>>)
                  /\ UNCHANGED highlight
                  /\ x' = IF type = "PanAction" THEN x + FDiv(deltax, zoom_ratio) ELSE x
                  /\ y' = IF type = "PanAction" THEN y + FDiv(deltay, zoom_ratio) ELSE y
                  /\ zoom_ratio' = IF type = "ZoomAction"
                                   THEN FMul(zoom_ratio,
                                             pow((FP * 201) \div 200,
                                                 (deltax + deltay) \div FP))
                                   ELSE zoom_ratio
    /\ UNCHANGED attr
    /\ UNCHANGED <<graph, animation, presstime, pressx, pressy, anims, timers, clock,
                   last_press>>

\* DotWidget.zoom_image(zoom_ratio) with center=False
zoom_image(ratio) == ratio

\* DotWidget.on_key_press_event
KeyPress(key) ==
    /\ nevents' = nevents + 1
    /\ ev' = Event("key", 0, 0, 0, 0, key)
    /\ IF key \in {"Left", "Right", "Up", "Down"} /\ zoom_ratio = 0
       THEN \* POS_INCREMENT/self.zoom_ratio raises
            /\ out' = Out("None", "ZeroDivisionError", <<>>)
            /\ UNCHANGED <<x, y, zoom_ratio, drag_action>>
       ELSE /\ x' = CASE key = "Left" -> x - FDiv(POS_INCREMENT, zoom_ratio)
                      [] key = "Right" -> x + FDiv(POS_INCREMENT, zoom_ratio)
                      [] OTHER -> x
            /\ y' = CASE key = "Up" -> y - FDiv(POS_INCREMENT, zoom_ratio)
                      [] key = "Down" -> y + FDiv(POS_INCREMENT, zoom_ratio)
                      [] OTHER -> y
            /\ zoom_ratio' = CASE key = "Page_Up" ->
                                    zoom_image(FMul(zoom_ratio, ZOOM_INCREMENT))
                               [] key = "Page_Down" ->
                                    zoom_image(FDiv(zoom_ratio, ZOOM_INCREMENT))
                               [] OTHER -> zoom_ratio
            /\ drag_action' = IF key = "Escape" THEN NullAction ELSE drag_action
            /\ out' = IF key = "Escape"
                      THEN Out("True", "", <<<<"abort", drag_action.type>>,
                                            <<"new", "NullAction">>>>)
                      ELSE IF key \in {"Left", "Right", "Up", "Down", "Page_Up",
                                       "Page_Down"}
                      THEN Out("True", "", <<>>)
                      ELSE Out("False", "", <<>>)
    /\ UNCHANGED attr
    /\ UNCHANGED <<graph, animation, presstime, pressx, pressy, highlight, anims,
                   timers, clock, last_press>>

\* DotWidget.on_area_scroll_event
Scroll(direction) ==
    /\ nevents' = nevents + 1
    /\ ev' = Event("scroll", 0, 0, 0, 0, direction)
    /\ zoom_ratio' = CASE direction = "SCROLL_UP" -> zoom_image(FMul(zoom_ratio, ZOOM_INCREMENT))
                       [] direction = "SCROLL_DOWN" -> zoom_image(FDiv(zoom_ratio, ZOOM_INCREMENT))
                       [] OTHER -> zoom_ratio
    /\ out' = Out(IF direction \in {"SCROLL_UP", "SCROLL_DOWN"} THEN "True" ELSE "False",
                  "", <<>>)
    /\ UNCHANGED attr
    /\ UNCHANGED <<graph, x, y, animation, drag_action, presstime, pressx, pressy,
                   highlight, anims, timers, clock, last_press>>

\* ------------------------------------------------------------------------
\* Toolbar actions
\* ------------------------------------------------------------------------
ZOOM_TO_FIT_MARGIN == 12

\* DotWidget.zoom_to_fit on a widget that shows g with the viewport
\* (fx, fy, zoom), for the allocation alloc: the viewport it sets, or the
\* exception it raises
zoom_to_fit(g, fx, fy, zoom, alloc) ==
    LET width == alloc.width - 2 * ZOOM_TO_FIT_MARGIN
        height == alloc.height - 2 * ZOOM_TO_FIT_MARGIN
    IN IF g.kind # "Graph"
       THEN [raised |-> "AttributeError", zoom_ratio |-> zoom, x |-> fx, y |-> fy]
       ELSE IF g.width = 0 \/ g.height = 0
       THEN [raised |-> "ZeroDivisionError", zoom_ratio |-> zoom, x |-> fx, y |-> fy]
       ELSE [raised |-> "",
             zoom_ratio |-> Min(FDiv(width * FP, g.width * FP),
                                FDiv(height * FP, g.height * FP)),
             x |-> (g.width \div 2) * FP,
             y |-> (g.height \div 2) * FP]

\* DotWidget.on_zoom_fit
OnZoomFit(alloc) ==
    /\ nevents' = nevents + 1
    /\ ev' = Event("on_zoom_fit", 0, 0, alloc.width, alloc.height, "")
    /\ LET v == zoom_to_fit(graph, x, y, zoom_ratio, alloc)
       IN /\ zoom_ratio' = v.zoom_ratio
          /\ x' = v.x
          /\ y' = v.y
          /\ out' = Out("None", v.raised, <<>>)
    /\ UNCHANGED attr
    /\ UNCHANGED <<graph, animation, drag_action, presstime, pressx, pressy,
                   highlight, anims, timers, clock, last_press>>

\* DotWindow.set_dotcode, which the toolbar action Open and main call with
\* the text of a file: widget.set_dotcode and, when it returns True,
\* set_title and widget.zoom_to_fit()
Open(layout, alloc) ==
    /\ nevents' = nevents + 1
    /\ ev' = Event("open", 0, 0, alloc.width, alloc.height,
                   IF layout.bb = NoBB THEN "nobb" ELSE "bb")
    /\ \E r \in {parse(layout)} :
          /\ r.raised # "run"
          /\ IF r.raised # ""
             THEN /\ out' = Out("None", r.raised, <<>>)
                  /\ UNCHANGED <<graph, x, y, zoom_ratio>>
             ELSE /\ graph' = r.value
                  /\ IF r.value.kind = "Graph"
                     THEN \* the widget centres the graph, then zoom_to_fit
                          LET v == zoom_to_fit(r.value, (r.value.width \div 2) * FP,
                                               (r.value.height \div 2) * FP,
                                               zoom_ratio, alloc)
                          IN /\ x' = v.x
                             /\ y' = v.y
                             /\ zoom_ratio' = v.zoom_ratio
                             /\ out' = Out("None", v.raised,
                                           << <<"set_title", "">>, <<"zoom_to_fit", "">> >>)
                     ELSE /\ out' = Out("None", "AttributeError", <<>>)
                          /\ UNCHANGED <<x, y, zoom_ratio>>
    /\ UNCHANGED attr
    /\ UNCHANGED <<animation, drag_action, presstime, pressx, pressy, highlight,
                   anims, timers, clock, last_press>>

\* DotWidget.set_current_pos, which the program that embeds the widget calls
SetCurrentPos(px, py) ==
    /\ nevents' = nevents + 1
    /\ ev' = Event("set_current_pos", 0, 0, px, py, "")
    /\ x' = px * FP
    /\ y' = py * FP
    /\ out' = Out("None", "", <<>>)
    /\ UNCHANGED attr
    /\ UNCHANGED <<graph, zoom_ratio, animation, drag_action, presstime, pressx,
                   pressy, highlight, anims, timers, clock, last_press>>

\* DotWidget.animate_to, which the program that embeds the widget may call as
\* the release handler does: an exception of ZoomToAnimation.__init__ leaves
\* it before self.animation is assigned
AnimateTo(target_x, target_y) ==
    /\ Len(anims) < MaxAnims
    /\ nevents' = nevents + 1
    /\ ev' = [Event("animate_to", 0, 0, 0, 0, "") EXCEPT !.x = target_x, !.y = target_y]
    /\ LET a == ZoomToAnimation(x, y, zoom_ratio, target_x, target_y)
           id == Len(anims) + 1
       IN IF a.kind = "Raise"
          THEN /\ out' = Out("None", a.raised, <<>>)
               /\ UNCHANGED <<animation, anims, timers>>
          ELSE /\ animation' = id
               /\ anims' = Append(anims, [a EXCEPT !.started = clock,
                                                   !.timeout_id = id])
               /\ timers' = timers \cup {id}
               /\ out' = Out("None", "", <<>>)
    /\ UNCHANGED attr
    /\ UNCHANGED <<graph, x, y, zoom_ratio, drag_action, presstime, pressx, pressy,
                   highlight, clock, last_press>>

\* DotWidget.on_zoom_in, on_zoom_out and on_zoom_100
OnZoom(name) ==
    /\ nevents' = nevents + 1
    /\ ev' = Event(name, 0, 0, 0, 0, "")
    /\ zoom_ratio' = CASE name = "on_zoom_in" -> zoom_image(FMul(zoom_ratio, ZOOM_INCREMENT))
                       [] name = "on_zoom_out" -> zoom_image(FDiv(zoom_ratio, ZOOM_INCREMENT))
                       [] name = "on_zoom_100" -> zoom_image(FP)
    /\ out' = Out("None", "", <<>>)
    /\ UNCHANGED attr
    /\ UNCHANGED <<graph, x, y, animation, drag_action, presstime, pressx, pressy,
                   highlight, anims, timers, clock, last_press>>

\* ------------------------------------------------------------------------
\* Specification
\* ------------------------------------------------------------------------
\* one step of the widget, for at most limit events drawn from the given sets
Step(limit, layouts, buttons, modifiers, points, keys, directions) ==
    \/ /\ nevents < limit
       /\ \E layout \in layouts : SetDotcode(layout)
    \/ /\ nevents < limit
       /\ \E button \in buttons, state \in modifiers, p \in points :
            Press(button, state, p)
    \/ /\ nevents < limit
       /\ \E button \in buttons, p \in points : Release(button, p)
    \/ /\ nevents < limit
       /\ \E p \in points : Motion(p)
    \/ /\ nevents < limit
       /\ \E key \in keys : KeyPress(key)
    \/ /\ nevents < limit
       /\ \E direction \in directions : Scroll(direction)
    \/ \E i \in 1..MaxAnims : Tick(i)
    \/ Advance

\* every handler, with few pointer positions
Next == Step(MaxEvents, {LayoutA, LayoutNoBB}, {1, 3}, {0, SHIFT_MASK, CONTROL_MASK}, {PU, PJ},
             {"Left", "Right", "Up", "Down", "Page_Up", "Page_Down", "Escape", "a"},
             {"SCROLL_UP", "SCROLL_DOWN", "SCROLL_LEFT"})

Spec == Init /\ [][Next]_vars

\* clicks: no modifiers, and three more pointer positions: (6, 5), inside
\* node "a" and sqrt(5) from PU, (32, 32), inside node "b", and (38, 2),
\* which hits nothing
NextClick == Step(MaxShort, {LayoutA}, {1, 2}, {0},
                  {PU, <<6, 5>>, PU4, PJ, <<32, 32>>, <<38, 2>>}, {"Escape"},
                  {"SCROLL_UP"})

SpecClick == Init /\ [][NextClick]_vars

\* drags: every button and modifier combination
NextDrag == Step(MaxShort, {LayoutA}, {1, 2, 3},
                 {0, SHIFT_MASK, CONTROL_MASK, SHIFT_MASK + CONTROL_MASK},
                 {PU, PU4, PJ}, {"Escape"}, {"SCROLL_UP"})

SpecDrag == Init /\ [][NextDrag]_vars

\* hovering: pointer motion between the other events, one button, and
\* zoom_to_fit on a drawing area of either size
NextHover ==
    \/ Step(MaxEvents, {LayoutA, LayoutNoBB}, {1},
            {0, SHIFT_MASK, CONTROL_MASK}, {PU, PJ},
            {"Escape", "Left", "Page_Up"}, {"SCROLL_UP"})
    \/ /\ nevents < MaxEvents
       /\ \E alloc \in {rect, Narrow} : OnZoomFit(alloc)

SpecHover == Init /\ [][NextHover]_vars

\* zooms: the toolbar actions and the position interface besides the
\* events.  zoom_to_fit reads the size the drawing area has at that moment
\* (get_allocation()): that of rect, 20 by 20 pixels, or the 24 by 24 pixels
\* of Narrow.
NextZoom ==
    \/ Step(MaxShort, {LayoutA}, {1}, {0, SHIFT_MASK, CONTROL_MASK}, {PU, PJ},
            {"Page_Up", "Page_Down"}, {"SCROLL_UP", "SCROLL_DOWN"})
    \/ /\ nevents < MaxShort
       /\ \E layout \in {LayoutA, LayoutNoBB},
             alloc \in {rect, [width |-> 20, height |-> 20], Narrow} : Open(layout, alloc)
    \/ /\ nevents < MaxShort
       /\ \E alloc \in {rect, [width |-> 20, height |-> 20], Narrow} : OnZoomFit(alloc)
    \/ /\ nevents < MaxShort
       /\ \E name \in {"on_zoom_in", "on_zoom_out", "on_zoom_100"} : OnZoom(name)
    \/ /\ nevents < MaxShort
       /\ \E p \in {<<8, 8>>, <<20, 20>>} : SetCurrentPos(p[1], p[2])

SpecZoom == Init /\ [][NextZoom]_vars

\* The spatial queries, called on the graph of a widget that has loaded a
\* layout, for points of a grid in graph space.
Grid == {2 * i : i \in 0..MaxGrid}

InitHit ==
    /\ \E layout \in {LayoutA, LayoutB, LayoutC} :
          /\ graph = parse(layout).value
          /\ x = (graph.width \div 2) * FP
          /\ y = (graph.height \div 2) * FP
    /\ zoom_ratio = FP
    /\ animation = 0
    /\ drag_action = NullAction
    /\ presstime = NoTime
    /\ pressx = 0
    /\ pressy = 0
    /\ highlight = NoHighlight
    /\ anims = <<>>
    /\ timers = {}
    /\ clock = 0
    /\ nevents = 1
    /\ ev = Event("load", 0, 0, 0, 0, "bb")
    /\ last_press = NoPress
    /\ out = Out("True", "", <<>>)
    /\ attr = NoParser

Query(name, key, px, py, value) ==
    /\ ev' = Event(name, 0, 0, px, py, key)
    /\ out' = [Out("None", "", <<>>) EXCEPT !.value = value]
    /\ UNCHANGED attr
    /\ UNCHANGED <<graph, x, y, zoom_ratio, animation, drag_action, presstime,
                   pressx, pressy, highlight, anims, timers, clock, nevents,
                   last_press>>

\* graph.get_jump(px, py)
QueryJump(px, py) ==
    Query("Graph.get_jump", "", px, py, Graph_get_jump(graph, px * FP, py * FP))

\* graph.get_url(px, py)
QueryUrl(px, py) ==
    Query("Graph.get_url", "", px, py, Graph_get_url(graph, px * FP, py * FP))

\* graph.edges[i].get_jump(px, py)
QueryEdgeJump(i, px, py) ==
    /\ i \in 1..Len(graph.edges)
    /\ Query("Edge.get_jump", graph.edges[i].id, px, py,
             Edge_get_jump(graph.edges[i], px * FP, py * FP))

NextHit ==
    \/ \E px \in Grid, py \in Grid : QueryJump(px, py)
    \/ \E px \in Grid, py \in Grid : QueryUrl(px, py)
    \/ \E i \in 1..3, px \in Grid, py \in Grid : QueryEdgeJump(i, px, py)

SpecHit == InitHit /\ [][NextHit]_vars

\* The loader and the attribute parser.  A directive string is assembled
\* from pieces, each an opcode with its operands: six well-formed ones (among
\* them a font with a fractional size, followed by a tab, and a colour in
\* upper-case hexadecimal), the unknown opcode "z", an ellipse whose last
\* operand is not followed by a space, and two style texts without the "-"
\* that starts a text.
WellFormed == {"e 1 2 3 4 ", "E 5 6 7 8 ", "T 1 2 0 7 1 -a ", "S 5 -solid ",
               "F 1.5 1 -a \t", "c 7 -#FF0000 "}

RECURSIVE Concat(_)
Concat(pieces) == IF pieces = <<>> THEN "" ELSE Head(pieces) \o Concat(Tail(pieces))

\* XDotAttrParser(parser, buf) for the buf made of the pieces, under a parser
\* without offsets; a behaviour follows one parser object
NewParser(pieces) ==
    /\ attr = NoParser
    /\ nevents' = nevents + 1
    /\ ev' = Event("XDotAttrParser", 0, 0, 0, 0, pieces)
    /\ attr' = XDotAttrParser(0, 0, Concat(pieces))
    /\ out' = Out("None", "", <<>>)
    /\ UNCHANGED <<graph, x, y, zoom_ratio, animation, drag_action, presstime,
                   pressx, pressy, highlight, anims, timers, clock, last_press>>

\* XDotAttrParser.parse: one turn of its loop
ParseStep ==
    /\ attr.status = "run"
    /\ Len(attr.shapes) < MaxShapes
    /\ attr' = ParseLoop(attr)
    /\ UNCHANGED <<graph, x, y, zoom_ratio, animation, drag_action, presstime,
                   pressx, pressy, highlight, anims, timers, clock, nevents, ev,
                   last_press, out>>

NextLoad ==
    \/ /\ nevents < MaxShort
       /\ \E pieces \in UNION {[1..n -> WellFormed
                                          \cup {"z ", "e 1 2 3 40", "S 0 ", "S 2 "}] :
                                   n \in 1..MaxPieces} :
            NewParser(pieces)
    \/ ParseStep
    \/ /\ nevents < MaxShort
       /\ \E layout \in {LayoutA, LayoutD, LayoutE, LayoutF, LayoutG, LayoutNoBB} :
            SetDotcode(layout)

SpecLoad == Init /\ [][NextLoad]_vars

\* A navigation animation from its creation to its end.  The initial states
\* are those of a widget that shows LayoutA with the focus f and the zoom
\* ratio z: the ratios zoom_to_fit gives for a drawing area of 20 pixels
\* (-0.1), 24 pixels (0), 44, 64 and 104 pixels.  animate_to is called once,
\* at once, for the centre of a node; the timer of the animation then fires
\* as time passes.
Zooms == {-(FP \div 10), 0, FP \div 2, FP, 2 * FP}

InitAnim ==
    /\ graph = parse(LayoutA).value
    /\ \E f \in {<<8, 8>>, <<20, 20>>, <<32, 32>>}, z \in Zooms :
          /\ x = f[1] * FP
          /\ y = f[2] * FP
          /\ zoom_ratio = z
    /\ anims = <<>>
    /\ animation = 0
    /\ timers = {}
    /\ clock = 0
    /\ drag_action = NullAction
    /\ presstime = NoTime
    /\ pressx = 0
    /\ pressy = 0
    /\ highlight = NoHighlight
    /\ nevents = 0
    /\ ev = NoEvent
    /\ last_press = NoPress
    /\ out = Out("None", "", <<>>)
    /\ attr = NoParser

\* Animation.step: the interval of the timer, 0.03 seconds
step == (FP * 3) \div 100

\* time passes, by one interval of the timer
Elapse ==
    /\ clock < MaxTime * TimeStep
    /\ clock' = clock + step
    /\ UNCHANGED attr
    /\ UNCHANGED <<graph, x, y, zoom_ratio, animation, drag_action, presstime,
                   pressx, pressy, highlight, anims, timers, nevents, ev,
                   last_press, out>>

NextAnim ==
    \/ /\ nevents = 0
       /\ clock = 0
       /\ \E n \in 1..Len(graph.nodes) : AnimateTo(graph.nodes[n].x, graph.nodes[n].y)
    \/ Tick(1)
    \/ Elapse

SpecAnim == InitAnim /\ [][NextAnim]_vars

\* the timer keeps firing while it is armed, and time passes
SpecAnimLive == SpecAnim /\ WF_vars(Elapse) /\ WF_vars(Tick(1))

ZoomPositive == zoom_ratio > 0

\* ------------------------------------------------------------------------
\* Properties
\* ------------------------------------------------------------------------
HasCall(o, name) == \E k \in DOMAIN o.calls : o.calls[k][1] = name
CallIndex(o, name) == CHOOSE k \in DOMAIN o.calls : o.calls[k][1] = name
CallArg(o, name) == o.calls[CallIndex(o, name)][2]
First(S) == CHOOSE i \in S : \A j \in S : i <= j
Sq(a) == a * a

\* the step delivers an event to the widget
Delivered == nevents' = nevents + 1

\* C1: loading a layout without a bounding box fails as a parse failure: the
\* graph field never holds anything but a Graph and set_dotcode returns False.
C1_LoadWithoutBBFails ==
    /\ graph.kind = "Graph"
    /\ (ev.type = "load" /\ ev.key = "nobb") => (out.ret = "False" /\ out.raised = "")

\* the event of the step is a release that comes less than 1.0 s after the
\* most recent press and less than 4 pixels (Euclidean) from its point
SoonAndNear ==
    /\ ev'.type = "release"
    /\ last_press.event.type = "press"
    /\ clock - last_press.time < FP
    /\ Sq((ev'.x - last_press.event.x) \div FP)
         + Sq((ev'.y - last_press.event.y) \div FP) < 16

\* C2: a release counts as a click iff a press has been seen, less than 1.0 s
\* have passed since the most recent press and the release point is less than
\* 4 pixels (Euclidean) from the point of that press.
C2_ClickIffSoonAndNear ==
    [][ (Delivered /\ ev'.type = "release" /\ ev'.button = 1
           /\ HasCall(out', "click"))
        => (CallArg(out', "click") = "True" <=> SoonAndNear) ]_vars

C2_Witness ==
    /\ ev.type = "release" /\ ev.button = 1
    /\ HasCall(out, "click") /\ CallArg(out, "click") = "True"
    /\ ev.x # last_press.event.x /\ ev.y # last_press.event.y
    /\ clock > last_press.time

\* the nodes with a URL whose closed bounds contain the graph point p
UrlNodesAt(g, p) ==
    IF g.kind # "Graph" THEN {}
    ELSE {i \in 1..Len(g.nodes) :
            /\ g.nodes[i].url # NoUrl
            /\ g.nodes[i].x1 <= p[1] /\ p[1] <= g.nodes[i].x2
            /\ g.nodes[i].y1 <= p[2] /\ p[2] <= g.nodes[i].y2}

\* the event of the step is a release of the primary button that qualifies as
\* a click
QualifyingClick == ev'.button = 1 /\ SoonAndNear

\* C3: 'clicked' is emitted only by a release that is a qualifying click of
\* the primary button on a node with a URL; on such a click the Url hit test
\* comes first, the event carries that node's URL and no animation is begun.
C3_ClickedOnlyOnUrlClick ==
    [][ Delivered =>
          LET p == window2graph(x', y', zoom_ratio', int(ev'.x), int(ev'.y))
              hits == IF zoom_ratio' = 0 THEN {} ELSE UrlNodesAt(graph, p)
          IN /\ HasCall(out', "emit clicked") =>
                  /\ QualifyingClick
                  /\ hits # {}
                  /\ CallArg(out', "emit clicked") = graph.nodes[First(hits)].url[1]
                  /\ HasCall(out', "get_url")
                  /\ CallIndex(out', "get_url") < CallIndex(out', "emit clicked")
                  /\ ~HasCall(out', "get_jump")
                  /\ ~HasCall(out', "animate_to")
                  /\ animation' = animation /\ anims' = anims /\ timers' = timers
             /\ (QualifyingClick /\ hits # {} /\ out'.raised = "") =>
                  HasCall(out', "emit clicked")
      ]_vars

C3_Witness ==
    /\ ev.type = "release" /\ ev.button = 1
    /\ HasCall(out, "emit clicked") /\ CallArg(out, "emit clicked") = "http://a"
    /\ ev.x # last_press.event.x

\* C4: a qualifying click of the primary button that hits no Url but a Jump
\* begins an animation to the jump's target and sets the widget's highlight
\* to the jump's highlight set in the same release handler.
C4_JumpClickSetsHighlight ==
    (ev.type = "release" /\ HasCall(out, "animate_to")) =>
        LET a == anims[Len(anims)]
            jump == get_jump(graph, a.source_x, a.source_y, a.source_zoom,
                             int(ev.x), int(ev.y))
        IN /\ a.target_x = jump.x /\ a.target_y = jump.y
           /\ highlight = Highlight(jump.highlight)

\* C5: the drag action chosen on a press depends on the button and the
\* modifiers only: for button 1 or 2 Pan without control and shift, Zoom with
\* control, ZoomArea with shift; Null for any other button.
C5_DragActionTable ==
    ev.type = "press" =>
        LET control == ev.state \in {CONTROL_MASK, CONTROL_MASK + SHIFT_MASK}
            shift == ev.state \in {SHIFT_MASK, CONTROL_MASK + SHIFT_MASK}
            type == drag_action.type
        IN /\ CallArg(out, "new") = type
           /\ ev.button \notin {1, 2} => type = "NullAction"
           /\ ev.button \in {1, 2} =>
                /\ (~control /\ ~shift) => type = "PanAction"
                /\ (control /\ ~shift) => type = "ZoomAction"
                /\ (shift /\ ~control) => type = "ZoomAreaAction"
                /\ (control /\ shift) => type \in {"ZoomAction", "ZoomAreaAction"}

C5_Witness ==
    /\ ev.type = "press" /\ ev.button = 2
    /\ ev.state = CONTROL_MASK + SHIFT_MASK
    /\ drag_action.type = "ZoomAction"
    /\ graph # EmptyGraph

\* C6: the drag action is the variant chosen at the most recent press until a
\* release or an Escape, and Null otherwise; no other event changes the
\* variant; a press aborts the old action before it installs the new one.
C6_DragActionPersists ==
    [][ IF Delivered /\ ev'.type = "press"
        THEN /\ drag_action'.type = get_drag_action(ev'.button, ev'.state)
             /\ out'.calls[2] = <<"abort", drag_action.type>>
             /\ out'.calls[3] = <<"new", drag_action'.type>>
        ELSE IF Delivered /\ (ev'.type = "release"
                              \/ (ev'.type = "key" /\ ev'.key = "Escape"))
        THEN drag_action'.type = "NullAction"
        ELSE drag_action'.type = drag_action.type
      ]_vars

\* C7: at most one animation timer is armed, and it belongs to the widget's
\* active animation.
C7_OneTimerArmed ==
    /\ Cardinality(timers) <= 1
    /\ \A i \in timers : i = animation

\* C8: right after a press and right after a graph load (one that completed
\* without an exception) no animation timer is armed.
C8_NoTimerAfterPressOrLoad ==
    (ev.type \in {"press", "load"} /\ out.raised = "") => timers = {}

\* the matches of Graph.get_jump at the point of the query
EdgesAt(g, px, py) ==
    {i \in 1..Len(g.edges) : Edge_get_jump(g.edges[i], px, py) # None}
NodesAt(g, px, py) ==
    {i \in 1..Len(g.nodes) :
        /\ g.nodes[i].x1 <= px /\ px <= g.nodes[i].x2
        /\ g.nodes[i].y1 <= py /\ py <= g.nodes[i].y2}

\* C9: Graph.get_jump returns the jump of the first edge that matches, else
\* the jump of the first node that contains the point, else none; a point
\* near an edge endpoint and inside a node yields the edge's jump.
C9_EdgesBeforeNodes ==
    ev.type = "Graph.get_jump" =>
        LET E == EdgesAt(graph, ev.x, ev.y)
            N == NodesAt(graph, ev.x, ev.y)
        IN out.value =
             IF E # {} THEN Edge_get_jump(graph.edges[First(E)], ev.x, ev.y)
             ELSE IF N # {}
             THEN [kind |-> "Jump", item |-> graph.nodes[First(N)].id,
                   x |-> graph.nodes[First(N)].x, y |-> graph.nodes[First(N)].y,
                   highlight |-> {graph.nodes[First(N)].id}]
             ELSE None

C9_Witness ==
    /\ ev.type = "Graph.get_jump"
    /\ Cardinality(EdgesAt(graph, ev.x, ev.y)) >= 2
    /\ Cardinality(NodesAt(graph, ev.x, ev.y)) >= 2
    /\ out.value.kind = "Jump"
    /\ out.value.item = graph.edges[1].id

\* the edge of the graph with the given identity
EdgeOf(g, id) == g.edges[CHOOSE i \in 1..Len(g.edges) : g.edges[i].id = id]
\* the point q is within 10 units of the point p
Within10(p, q) == Sq((p[1] - q[1]) \div FP) + Sq((p[2] - q[2]) \div FP) <= 100

\* C10: Edge.get_jump returns a Jump to the destination node, highlighting
\* the edge and the destination, within 10 units of the first point; else a
\* Jump to the source node, highlighting the edge and the source, within 10
\* units of the last point; else none.
C10_EdgeJump ==
    ev.type = "Edge.get_jump" =>
        LET e == EdgeOf(graph, ev.key)
            p == <<ev.x, ev.y>>
        IN out.value =
             IF Within10(p, e.points[1])
             THEN [kind |-> "Jump", item |-> e.id, x |-> e.dst.x, y |-> e.dst.y,
                   highlight |-> {e.id, e.dst.id}]
             ELSE IF Within10(p, e.points[Len(e.points)])
             THEN [kind |-> "Jump", item |-> e.id, x |-> e.src.x, y |-> e.src.y,
                   highlight |-> {e.id, e.src.id}]
             ELSE None

C10_Witness ==
    /\ ev.type = "Edge.get_jump"
    /\ LET e == EdgeOf(graph, ev.key)
           p == <<ev.x, ev.y>>
       IN /\ Within10(p, e.points[1])
          /\ Within10(p, e.points[Len(e.points)])
          /\ e.points[1] # e.points[Len(e.points)]
          /\ out.value.x = e.dst.x /\ out.value.y = e.dst.y
          /\ e.dst.id # e.src.id

\* C11: Graph.get_url returns the Url of the first node, in insertion order,
\* that has a URL and whose closed bounds contain the point, with that node
\* as item and as the only highlight; nodes without a URL are skipped; none
\* when no node qualifies.
C11_FirstUrlNode ==
    ev.type = "Graph.get_url" =>
        LET hits == UrlNodesAt(graph, <<ev.x, ev.y>>)
        IN out.value =
             IF hits # {}
             THEN [kind |-> "Url", item |-> graph.nodes[First(hits)].id,
                   url |-> graph.nodes[First(hits)].url[1],
                   highlight |-> {graph.nodes[First(hits)].id}]
             ELSE None

C11_Witness ==
    /\ ev.type = "Graph.get_url"
    /\ LET hits == UrlNodesAt(graph, <<ev.x, ev.y>>)
           all == NodesAt(graph, ev.x, ev.y)
       IN /\ Cardinality(hits) >= 2
          /\ First(all) < First(hits)
          /\ ev.x = graph.nodes[First(hits)].x2
          /\ out.value.kind = "Url"
          /\ out.value.item = graph.nodes[First(hits)].id

\* the shapes a well-formed piece emits, under a parser without offsets
ShapesOf(piece) ==
    CASE piece = "e 1 2 3 4 " ->
           <<[kind |-> "Ellipse", x0 |-> FP, y0 |-> -2 * FP, w |-> 3, h |-> 4,
              filled |-> FALSE]>>
      [] piece = "E 5 6 7 8 " ->
           <<[kind |-> "Ellipse", x0 |-> 5 * FP, y0 |-> -6 * FP, w |-> 7, h |-> 8,
              filled |-> TRUE],
             [kind |-> "Ellipse", x0 |-> 5 * FP, y0 |-> -6 * FP, w |-> 7, h |-> 8,
              filled |-> FALSE]>>
      [] piece = "T 1 2 0 7 1 -a " ->
           <<[kind |-> "Text", x |-> FP, y |-> -2 * FP, j |-> 0, w |-> 7, t |-> "a"]>>
      [] OTHER -> <<>>

RECURSIVE ExpectedShapes(_)
ExpectedShapes(pieces) ==
    IF pieces = <<>> THEN <<>>
    ELSE ShapesOf(Head(pieces)) \o ExpectedShapes(Tail(pieces))

\* the unknown opcodes of a directive
UnknownAt(pieces) == {k \in 1..Len(pieces) : pieces[k] = "z "}
\* the pieces before piece k are well-formed
WellFormedBefore(pieces, k) == \A j \in 1..(k - 1) : pieces[j] \in WellFormed

\* an ellipse shape on the canvas
CanvasEllipse(cx, cy, w, h) ==
    [kind |-> "Ellipse", x0 |-> cx * FP, y0 |-> cy * FP, w |-> w, h |-> h,
     filled |-> FALSE]

\* C12: at an unrecognised opcode the attribute parser reports it and
\* returns the shapes emitted by the opcodes before it, in order, and none
\* from after it; the other drawing attributes of the element and the other
\* elements are still interpreted and the load still produces a Graph.
C12_UnknownOpcodeStops ==
    /\ (ev.type = "XDotAttrParser" /\ attr.status = "return") =>
          LET pieces == ev.key
              k == First(UnknownAt(pieces))
          IN IF UnknownAt(pieces) # {} /\ WellFormedBefore(pieces, k)
             THEN /\ attr.unknown = "z"
                  /\ attr.shapes = ExpectedShapes(SubSeq(pieces, 1, k - 1))
             ELSE WellFormedBefore(pieces, Len(pieces) + 1) =>
                    /\ attr.unknown = ""
                    /\ attr.shapes = ExpectedShapes(pieces)
    /\ (ev.type = "load" /\ out.raised = "" /\ graph = parse(LayoutD).value) =>
          /\ out.ret = "True"
          /\ graph.kind = "Graph"
          /\ Len(graph.nodes) = 2 /\ Len(graph.edges) = 1
          /\ graph.nodes[1].shapes =
                <<CanvasEllipse(8, 8, 9, 9),
                  [kind |-> "Text", x |-> 8 * FP, y |-> 8 * FP, j |-> 0, w |-> 7,
                   t |-> "a"]>>
          /\ graph.nodes[2].shapes = <<CanvasEllipse(32, 32, 9, 9)>>
          /\ graph.edges[1].shapes =
                <<[kind |-> "Bezier",
                   points |-> <<<<14 * FP, 14 * FP>>, <<20 * FP, 20 * FP>>,
                                <<26 * FP, 26 * FP>>>>],
                  CanvasEllipse(26, 26, 2, 2)>>

C12_Witness ==
    /\ ev.type = "XDotAttrParser" /\ attr.status = "return"
    /\ ev.key = <<"E 5 6 7 8 ", "z ">>
    /\ attr.unknown = "z" /\ Len(attr.shapes) = 2
    /\ graph = parse(LayoutD).value /\ Len(graph.edges[1].shapes) = 2

\* C13: an edge of the layout whose source or destination key is not in
\* the node index is fatal for the load, and only nodes with shapes are
\* indexed: every Edge of the Graph has its source and its destination among
\* the Graph's Nodes.
C13_EdgeEndsAreNodes ==
    graph.kind = "Graph" =>
        \A i \in 1..Len(graph.edges) :
            /\ \E j \in 1..Len(graph.nodes) : graph.nodes[j] = graph.edges[i].src
            /\ \E j \in 1..Len(graph.nodes) : graph.nodes[j] = graph.edges[i].dst

\* C19: every turn of the loop of XDotAttrParser.parse that reads an opcode
\* leaves the cursor strictly after its previous position, so that no opcode
\* is interpreted twice and the parse ends.
C19_CursorAdvances ==
    [][ (nevents' = nevents /\ attr' # attr /\ attr.pos < Len(attr.buf))
        => attr'.pos > attr.pos ]_vars

\* C14: in every reachable state the zoom ratio is greater than 0, whatever
\* loads, step zooms, drag zooms, zoom_to_fit calls, ZoomArea releases and
\* animation ticks led to it.
C14_ZoomRatioPositive == zoom_ratio > 0

\* the argument LinearAnimation.tick passes to animate at the present clock
TickTime(a) == Max(0, Min(FDiv(clock - a.started, duration), FP))

\* the straight blend to*t + from*(1-t)
Blend(from, to, t) == FMul(to, t) + FMul(from, FP - t)

\* the animation was created with its source focus on its target
SameFocus(a) == a.source_x = a.target_x /\ a.source_y = a.target_y

\* C15: the zoom-out bump extra_zoom of a zoom-to animation is never above 0,
\* so the zoom ratio a tick sets never exceeds the straight blend
\* target*t + source*(1-t); and an animate_to whose target is the present
\* focus divides by no zero: it raises nothing and creates an animation with
\* extra_zoom = 0, every tick of which leaves the focus on the target and the
\* zoom ratio at the target zoom.
C15_ZoomOutBump ==
    [][/\ (Delivered /\ ev'.type = "animate_to" /\ ev'.x = x /\ ev'.y = y) =>
             /\ out'.raised = ""
             /\ Len(anims') = Len(anims) + 1
             /\ anims'[Len(anims')].extra_zoom = 0
       /\ \A i \in 1..Len(anims') :
             LET a == anims'[i]
             IN /\ a.extra_zoom <= 0
                /\ Tick(i) => zoom_ratio' <= Blend(a.source_zoom, a.target_zoom, TickTime(a))
                /\ SameFocus(a) =>
                      /\ a.extra_zoom = 0
                      /\ Tick(i) => /\ x' = a.target_x
                                    /\ y' = a.target_y
                                    /\ zoom_ratio' = a.target_zoom]_vars

\* C16: once the tick of a running animation has returned False, the
\* animation has stopped itself: the widget's active animation is the no-op
\* NoAnimation and the finished animation holds no timer id.
C16_TickSelfStops ==
    (ev.type = "tick" /\ out.ret = "False") =>
        /\ animation = 0
        /\ \A i \in 1..Len(anims) : i \notin timers => anims[i].timeout_id = NoSource

\* the viewport is the one animate sets for some t of [0, 1]
Animated(a, vx, vy, vzoom) ==
    \E t \in 0..FP : animate(a, t) = [zoom_ratio |-> vzoom, x |-> vx, y |-> vy]

\* the animation has ended with the viewport on its target, at the zoom z
Arrived(z) ==
    /\ timers = {}
    /\ out.ret = "False"
    /\ x = anims[1].target_x
    /\ y = anims[1].target_y
    /\ zoom_ratio = anims[1].target_zoom
    /\ zoom_ratio = z

\* C17: a navigation animation that is not interrupted terminates as the
\* clock advances.  Every tick sets the viewport animate gives for a t of
\* [0, 1] and keeps the timer exactly while less than the duration has
\* elapsed; the tick that returns False sets the focus to the target and the
\* zoom ratio to the target zoom; and from its creation at zoom ratio z the
\* animation leads to its end with the focus on the target and the zoom ratio
\* z again.
C17_AnimationTerminates ==
    /\ [][\A i \in 1..Len(anims) :
             Tick(i) =>
               /\ Animated(anims[i], x', y', zoom_ratio')
               /\ (out'.ret = "True") = (clock - anims[i].started < duration)
               /\ (i \in timers') = (out'.ret = "True")
               /\ out'.ret = "False" => /\ x' = anims[i].target_x
                                        /\ y' = anims[i].target_y
                                        /\ zoom_ratio' = anims[i].target_zoom]_vars
    /\ \A z \in Zooms :
          (ev.type = "animate_to" /\ out.raised = "" /\ zoom_ratio = z) ~> Arrived(z)

\* an animation with a zoom-out bump has moved the focus to its target and
\* ended
C17_Witness ==
    /\ Len(anims) = 1
    /\ ~SameFocus(anims[1])
    /\ anims[1].extra_zoom < 0
    /\ ev.type = "tick"
    /\ Arrived(anims[1].source_zoom)

\* the graph point under the pointer at window position (px, py), when the
\* viewport has one
Pointed(px, py) ==
    << FDiv(px - (rect.width * FP) \div 2, zoom_ratio) + x,
       FDiv(py - (rect.height * FP) \div 2, zoom_ratio) + y >>

\* the point p is within 10 units of the point q
Near(p, q) ==
    /\ Abs(p[1] - q[1]) <= 10 * FP
    /\ Abs(p[2] - q[2]) <= 10 * FP
    /\ Sq(p[1] - q[1]) + Sq(p[2] - q[2]) <= 100 * FP * FP

\* the highlight set of what the pointer at window position (px, py) hits:
\* the first node with a URL that contains the point, else the first edge
\* with an end within 10 units of it (the edge and the node at its other end),
\* else the first node that contains it; nothing is hit where there is no
\* graph or no graph point under the pointer
HitHighlight(px, py) ==
    IF graph.kind # "Graph" \/ zoom_ratio = 0 THEN NoHighlight
    ELSE LET p == Pointed(px, py)
             U == UrlNodesAt(graph, p)
             E == {i \in 1..Len(graph.edges) :
                     /\ graph.edges[i].points # <<>>
                     /\ \/ Near(p, graph.edges[i].points[1])
                        \/ Near(p, graph.edges[i].points[Len(graph.edges[i].points)])}
             N == NodesAt(graph, p[1], p[2])
         IN IF U # {} THEN Highlight({graph.nodes[First(U)].id})
            ELSE IF E # {}
            THEN LET e == graph.edges[First(E)]
                 IN Highlight({e.id, IF Near(p, e.points[1]) THEN e.dst.id
                                     ELSE e.src.id})
            ELSE IF N # {} THEN Highlight({graph.nodes[First(N)].id})
            ELSE NoHighlight

\* C18: the highlight set changes only in a step that delivers a motion event
\* while the drag action is the Null action; such a motion sets it to the
\* highlight set of the hit (Url first, then Jump) or clears it when nothing
\* is hit.  Every other step (motion in Pan, Zoom or ZoomArea, press,
\* release, Escape and the other keys, scroll, load, tick) leaves it as it is.
C18_HighlightOnlyByNullMotion ==
    [][/\ highlight' # highlight =>
             /\ nevents' = nevents + 1
             /\ ev'.type = "motion"
             /\ drag_action.type = "NullAction"
       /\ (nevents' = nevents + 1 /\ ev'.type = "motion"
              /\ drag_action.type = "NullAction") =>
             highlight' = HitHighlight(ev'.x, ev'.y)]_vars

====
